---- MODULE Spec2Model ----
(***************************************************************************)
(* A model of the job-fanout / process-execution core of cactus            *)
(* (src/src/cactus/shared/common.py):                                      *)
(*   - ChildTreeJob: addChild queues child jobs, _run attaches them to the *)
(*     engine graph, directly or below a tree of empty RoundedJobs;        *)
(*   - cactus_call: the polling loop around one child process, its soft    *)
(*     timeout, its docker memory sampling and the way its outcome is      *)
(*     resolved;                                                           *)
(*   - RoundedJob: the rounding of memory and disk requirements;           *)
(*   - singularityCommand: concurrent callers filling the sandbox cache.   *)
(***************************************************************************)
EXTENDS Integers, Sequences, FiniteSets, TLC

VARIABLES
    maxChildrenPerJob,  \* ChildTreeJob.maxChildrenPerJob
    queuedChildJobs,    \* ChildTreeJob.queuedChildJobs, a sequence of job ids
    children,           \* the engine graph: unit -> sequence of its children
    frontier,           \* _run's prev_level when the leaves are added
    treePc,             \* "queued" | "done" | "assert_failed"
    addChildRet,        \* what the latest ChildTreeJob.addChild returned:
                        \*   <<job>>, and <<>> before the first call
    queuedAtRun,        \* len(queuedChildJobs) when the engine called _run,
                        \*   -1 before that
    opts,               \* cactus_call's arguments and the binaries mode
    callPc,             \* "start" | "polling" | "returned" | "raised"
    exitPath,           \* how the call ended: "" | "server" | "soft_timeout"
                        \*   | "completed" | "assert"
    retval,             \* the value cactus_call returned
    error,              \* the exception cactus_call raised
    returncode,         \* process.returncode: NoValue while the child runs
    memUsage,           \* the local memUsage
    updatedMemUsage,    \* the local updatedMemUsage of the latest poll
    first_run,          \* the local first_run
    elapsed,            \* time.time() - start_time at the latest poll expiry
    polls,              \* the number of polls that timed out
    sigints,            \* the number of SIGINTs sent to the child
    popen,              \* the arguments subprocess.Popen was called with
    communicated,       \* the input argument of each process.communicate
    stageStatus,        \* the exit status of each stage of a piped command
                        \*   that has run, else <<>>
    roundingAmount,     \* RoundedJob.roundingAmount of the job j
    declared,           \* the memory and disk given to RoundedJob.__init__
    requested,          \* the memory and disk it hands to Job.__init__
    lastRound,          \* the latest call j.roundUp(arg) and its result
    roundPc,            \* "new" | "constructed"
    sandbox,            \* the cache entry sandbox_dirname: the callers whose
                        \*   renames put their copy there, in order; <<>>
                        \*   while there is no such directory
    tempSandboxes,      \* the callers whose temp_sandbox_dirname exists
    renameErrno,        \* the errno of os.rename onto an existing sandbox
    callers,            \* each singularityCommand caller: its position, what
                        \*   it found, its builds, its error, its result
    containerInfo,      \* the handle dockerCommand returns: [name, id]
    dockerState,        \* the container of that name: "not_running" | "running"
                        \*   | "gone"
    cgroup,             \* what each possible location of
                        \*   memory.max_usage_in_bytes holds: None when it
                        \*   cannot be read
    queryRet,           \* what the latest maxMemUsageOfContainer returned
    inspects,           \* the number of "docker inspect" calls made
    queries,            \* the number of maxMemUsageOfContainer calls made
    childExits,         \* whether the child process of cactus_call ever exits
    flowerNames,        \* the string given to
                        \*   runCactusSplitFlowersBySecondaryGrouping
    flowerGroups,       \* the list it returned: (overlarge, encoded names)
    firstNames,         \* decodeFirstFlowerName of each returned group
    flowerPc,           \* "called" | "split" | "decoded"
    prepareArgs,        \* the arguments of prepareWorkDir and the environment:
                        \*   [work_dir, parameters, docker_mode]
    prepareRet,         \* what prepareWorkDir returned: [work_dir, parameters]
    preparePc           \* "called" | "returned"

treeVars == <<maxChildrenPerJob, queuedChildJobs, children, frontier, treePc,
              addChildRet, queuedAtRun>>

callVars == <<opts, callPc, exitPath, retval, error, returncode, memUsage,
              updatedMemUsage, first_run, elapsed, polls, sigints, popen,
              communicated, stageStatus>>

roundVars == <<roundingAmount, declared, requested, lastRound, roundPc>>

singVars == <<sandbox, tempSandboxes, renameErrno, callers>>

memVars == <<containerInfo, dockerState, cgroup, queryRet, inspects, queries>>

childVars == <<childExits>>

flowerVars == <<flowerNames, flowerGroups, firstNames, flowerPc>>

prepareVars == <<prepareArgs, prepareRet, preparePc>>

vars == <<treeVars, callVars, roundVars, singVars, memVars, childVars, flowerVars, prepareVars>>

\* what a ChildTreeJob, and what a cactus_call, leaves alone
otherThanTree == <<callVars, roundVars, singVars, memVars, childVars, flowerVars, prepareVars>>
otherThanCall == <<treeVars, roundVars, singVars, memVars, childVars, flowerVars, prepareVars>>
otherThanRound == <<treeVars, callVars, singVars, memVars, childVars, flowerVars, prepareVars>>
otherThanSing == <<treeVars, callVars, roundVars, memVars, childVars, flowerVars, prepareVars>>
otherThanMem == <<treeVars, callVars, roundVars, singVars, childVars, flowerVars, prepareVars>>
otherThanFlower == <<treeVars, callVars, roundVars, singVars, memVars, childVars, prepareVars>>
otherThanPrepare == <<treeVars, callVars, roundVars, singVars, memVars, childVars, flowerVars>>

----------------------------------------------------------------------------
(* Bounds of the model *)

\* largest maxChildrenPerJob tried besides the default
MaxM == 4

\* longest queue of child jobs
MaxQueue == 500

\* most child jobs queued before _run begins
MaxQueuedBeforeRun == 1

\* most child jobs that the run body queues after such jobs
MaxQueuedDuringRun == 30

\* most polls of cactus_call that time out
MaxPolls == 3

\* largest memory sample of a container
MaxMem == 2

\* soft_timeout is a multiple of SoftTimeoutStep seconds, up to
\* MaxSoftTimeoutSteps of them
MaxSoftTimeoutSteps == 4

\* largest exit status of the child
MaxExitCode == 7

\* largest number of a signal that terminates the child
MaxSignal == 35

----------------------------------------------------------------------------
(* Program constants *)

\* ChildTreeJob.__init__(..., maxChildrenPerJob=20)
DefaultMaxChildrenPerJob == 20

\* process.communicate(..., timeout=10)
PollInterval == 10

----------------------------------------------------------------------------
(* Helpers *)

Range(s) == {s[i] : i \in DOMAIN s}

Min(a, b) == IF a <= b THEN a ELSE b

\* The ChildTreeJob itself. Queued jobs are 1, 2, ...; the empty RoundedJobs
\* that _run creates are -1, -2, ... in the order of their creation.
Self == 0

----------------------------------------------------------------------------
(* ChildTreeJob *)

\* The largest e with m^e <= n, for n >= 1 and m >= 2.
RECURSIVE ExactFloorLog(_, _)
ExactFloorLog(n, m) == IF n < m THEN 0 ELSE 1 + ExactFloorLog(n \div m, m)

\* The arguments n > m (n <= 1200, m <= 22) at which the IEEE-754 quotient
\* log(n)/log(m) that math.log(n, m) computes falls just below the integer
\* log_m(n), so that math.floor gives one less than the exact floor:
\* math.log(243, 3) = 4.999999999999999, math.log(1000, 10) = 2.9999999999999996.
FloatLogLow == {<<243, 3>>, <<1000, 10>>}

\* A variant of NumLevels: math.ceil in place of math.floor.
NumLevelsCeil(n, m) ==
    LET e == ExactFloorLog(n, m)
    IN  IF m ^ e = n THEN e ELSE e + 1

\* A variant of NumLevels: one level fewer.
NumLevelsOneLess(n, m) == ExactFloorLog(n, m) - 1

\* math.floor(math.log(n, m)) as the interpreter computes it.
NumLevels(n, m) ==
    IF <<n, m>> \in FloatLogLow THEN ExactFloorLog(n, m) - 1
    ELSE ExactFloorLog(n, m)

\* Job.addChild of the engine, called once per job of `jobs` in their order
\* ("for ...: parent_job.addChild(job)"): each call appends the job to the
\* parent's list of children.
AddChildren(ch, parent_job, jobs) ==
    [ch EXCEPT ![parent_job] = @ \o jobs]

\* RoundedJob(): the k new empty jobs made after `made` were made.
NewJobs(made, k) == [j \in 1..k |-> -(made + j)]

\* A variant of ExpandParent: range(maxChildrenPerJob + 1) in the inner loop.
ExpandParentOneMore(st, parent_job, n, m) ==
    IF Len(st.level) * m < n
    THEN LET new == NewJobs(st.made, m + 1)
             ch0 == st.ch @@ [u \in Range(new) |-> <<>>]
         IN  [level |-> st.level \o new,
              ch    |-> AddChildren(ch0, parent_job, new),
              made  |-> st.made + m + 1]
    ELSE [st EXCEPT !.level = Append(@, parent_job)]

\* A variant of ExpandParent: no partial split, every parent is expanded.
ExpandParentAlways(st, parent_job, n, m) ==
    LET new == NewJobs(st.made, m)
        ch0 == st.ch @@ [u \in Range(new) |-> <<>>]
    IN  [level |-> st.level \o new,
         ch    |-> AddChildren(ch0, parent_job, new),
         made  |-> st.made + m]

\* A variant of ExpandParent: the "else" is dropped, so that an expanded
\* parent is carried into the next level as well.
ExpandParentNoElse(st, parent_job, n, m) ==
    IF Len(st.level) * m < n
    THEN LET new == NewJobs(st.made, m)
             ch0 == st.ch @@ [u \in Range(new) |-> <<>>]
         IN  [level |-> Append(st.level \o new, parent_job),
              ch    |-> AddChildren(ch0, parent_job, new),
              made  |-> st.made + m]
    ELSE [st EXCEPT !.level = Append(@, parent_job)]

\* One iteration of "for parent_job in prev_level" in the level-building loop.
\* st = [level, ch, made]: the level under construction, the graph, the
\* number of RoundedJobs created so far.
ExpandParent(st, parent_job, n, m) ==
    IF Len(st.level) * m < n
    THEN LET new == NewJobs(st.made, m)
             ch0 == st.ch @@ [u \in Range(new) |-> <<>>]
         IN  [level |-> st.level \o new,
              ch    |-> AddChildren(ch0, parent_job, new),
              made  |-> st.made + m]
    ELSE [st EXCEPT !.level = Append(@, parent_job)]

RECURSIVE ExpandLevel(_, _, _, _, _, _)
\* "for parent_job in prev_level" over the positions lo..hi, in order. The
\* range is halved, and the first half's result is tested (the test is always
\* true) before the second half starts, only so that the evaluation stays
\* shallow; the iterations and their order are the loop's.
ExpandLevel(st, prev_level, lo, hi, n, m) ==
    IF lo > hi THEN st
    ELSE IF lo = hi THEN ExpandParent(st, prev_level[lo], n, m)
    ELSE LET mid  == (lo + hi) \div 2
             left == ExpandLevel(st, prev_level, lo, mid, n, m)
         IN  IF left.made >= 0
             THEN ExpandLevel(left, prev_level, mid + 1, hi, n, m)
             ELSE left

RECURSIVE BuildLevels(_, _, _, _, _, _)
\* "for i in range(num_levels)", with k iterations left; gives
\* [level |-> the final prev_level, ch, made]
BuildLevels(k, prev_level, ch, made, n, m) ==
    IF k <= 0 THEN [level |-> prev_level, ch |-> ch, made |-> made]
    ELSE LET st == ExpandLevel([level |-> <<>>, ch |-> ch, made |-> made],
                               prev_level, 1, Len(prev_level), n, m)
         IN  BuildLevels(k - 1, st.level, st.ch, st.made, n, m)

\* A variant of AddLeavesTo: queuedChildJobs[j] in place of
\* queuedChildJobs[leaves_added].
AddLeavesToByLoopIndex(st, parent_job, queue, m) ==
    LET num_children == Min(Len(queue) - st.leaves_added, m)
        batch == SubSeq(queue, 1, num_children)
    IN  [ch |-> AddChildren(st.ch, parent_job, batch),
         leaves_added |-> st.leaves_added + num_children]

\* One iteration of "for parent_job in prev_level" in the leaf loop: attach
\* the next min(len(queue) - leaves_added, m) queued jobs to parent_job.
\* st = [ch, leaves_added].
AddLeavesTo(st, parent_job, queue, m) ==
    LET num_children == Min(Len(queue) - st.leaves_added, m)
        batch == SubSeq(queue, st.leaves_added + 1, st.leaves_added + num_children)
    IN  [ch |-> AddChildren(st.ch, parent_job, batch),
         leaves_added |-> st.leaves_added + num_children]

RECURSIVE AddLeaves(_, _, _, _, _, _)
\* "for parent_job in prev_level" of the leaf loop over the positions
\* lo..hi, in order (halved like ExpandLevel).
AddLeaves(st, prev_level, lo, hi, queue, m) ==
    IF lo > hi THEN st
    ELSE IF lo = hi THEN AddLeavesTo(st, prev_level[lo], queue, m)
    ELSE LET mid  == (lo + hi) \div 2
             left == AddLeaves(st, prev_level, lo, mid, queue, m)
         IN  IF left.leaves_added >= 0
             THEN AddLeaves(left, prev_level, mid + 1, hi, queue, m)
             ELSE left

\* The tree branch of _run: the levels of empty RoundedJobs, then the leaves.
\* Gives [ch, leaves_added, frontier, made].
BuildTree(ch, queue, m) ==
    LET n      == Len(queue)
        built  == BuildLevels(NumLevels(n, m), <<Self>>, ch, 0, n, m)
        leaves == AddLeaves([ch |-> built.ch, leaves_added |-> 0],
                            built.level, 1, Len(built.level), queue, m)
    IN  [ch |-> leaves.ch, leaves_added |-> leaves.leaves_added,
         frontier |-> built.level, made |-> built.made]

\* ChildTreeJob.__init__ followed by nothing else: an empty queue, no children.
TreeInit ==
    /\ maxChildrenPerJob \in (2..MaxM) \cup {DefaultMaxChildrenPerJob}
    /\ queuedChildJobs = <<>>
    /\ children = (Self :> <<>>)
    /\ frontier = <<>>
    /\ treePc = "queued"
    /\ addChildRet = <<>>
    /\ queuedAtRun = -1

\* A variant of AddChild: the job is handed to the engine's addChild at once,
\* as RoundedJob.addChild would.
AddChildAttaches(job) ==
    /\ treePc = "queued"
    /\ queuedChildJobs' = Append(queuedChildJobs, job)
    /\ children' = AddChildren(children @@ (job :> <<>>), Self, <<job>>)
    /\ addChildRet' = <<job>>
    /\ UNCHANGED <<maxChildrenPerJob, frontier, treePc, queuedAtRun>>
    /\ UNCHANGED otherThanTree

\* ChildTreeJob.addChild(job): queue the job, attach nothing, return the job.
\* It is called by whoever constructed the ChildTreeJob, and by the job's
\* run body, which super()._run executes at the start of _run.
AddChild(job) ==
    /\ treePc = "queued"
    /\ queuedChildJobs' = Append(queuedChildJobs, job)
    /\ children' = children @@ (job :> <<>>)
    /\ addChildRet' = <<job>>
    /\ UNCHANGED <<maxChildrenPerJob, frontier, treePc, queuedAtRun>>
    /\ UNCHANGED otherThanTree

\* A variant of FitsDirectly: "<" in place of "<=".
FitsDirectlyStrict(n, m) == n < m

\* "if len(self.queuedChildJobs) <= self.maxChildrenPerJob"
FitsDirectly(n, m) == n <= m

\* ChildTreeJob._run: attach the queued jobs, directly or through a tree;
\* the final assert fails when not every queued job found a place.
Run ==
    /\ treePc = "queued"
    /\ queuedAtRun >= 0
    /\ IF FitsDirectly(Len(queuedChildJobs), maxChildrenPerJob)
       THEN /\ children' = AddChildren(children, Self, queuedChildJobs)
            /\ frontier' = <<>>
            /\ treePc' = "done"
       ELSE LET t == BuildTree(children, queuedChildJobs, maxChildrenPerJob)
            IN  /\ children' = t.ch
                /\ frontier' = t.frontier
                /\ treePc' = IF t.leaves_added = Len(queuedChildJobs)
                             THEN "done" ELSE "assert_failed"
    /\ UNCHANGED <<maxChildrenPerJob, queuedChildJobs, addChildRet, queuedAtRun>>
    /\ UNCHANGED otherThanTree

\* The engine calls _run: "ret = super()._run(jobGraph, fileStore)" starts
\* the job's run body.
StartRun ==
    /\ treePc = "queued"
    /\ queuedAtRun = -1
    /\ queuedAtRun' = Len(queuedChildJobs)
    /\ UNCHANGED <<maxChildrenPerJob, queuedChildJobs, children, frontier, treePc, addChildRet>>
    /\ UNCHANGED otherThanTree

\* A job that has just been constructed is queued: by the constructor of
\* the ChildTreeJob before _run (at most MaxQueuedBeforeRun jobs), or by the
\* run body (at most MaxQueuedDuringRun jobs when some were queued before,
\* and up to MaxQueue jobs otherwise).
QueueChild ==
    /\ Len(queuedChildJobs) < MaxQueue
    /\ queuedAtRun = -1 => Len(queuedChildJobs) < MaxQueuedBeforeRun
    /\ queuedAtRun > 0 => Len(queuedChildJobs) < queuedAtRun + MaxQueuedDuringRun
    /\ AddChild(Len(queuedChildJobs) + 1)

----------------------------------------------------------------------------
(* cactus_call *)

\* Python's None, and "no value yet" for the model's own bookkeeping
None == [type |-> "NoneType"]
NoValue == [type |-> "unset"]

IntValue(i) == [type |-> "int", value |-> i]
StrValue(str) == [type |-> "str", value |-> str]
\* the subprocess.Popen object that server=True hands back
ProcessValue == [type |-> "Popen"]

Modes == {"docker", "singularity", "local"}

\* seconds between two soft timeouts the model tries
SoftTimeoutStep == 5

SoftTimeouts == {None} \cup {IntValue(k * SoftTimeoutStep) : k \in 0..MaxSoftTimeoutSteps}

\* what the child may have written to its standard output
ChildOutputs == {"", "out"}

\* process.returncode once the child has exited: its exit status, or minus
\* the number of the signal that terminated it
ReturnCodes == (0..MaxExitCode) \cup {-sig : sig \in 1..MaxSignal}

\* The members of signal.Signals (Linux): 1..31, SIGRTMIN = 34, SIGRTMAX = 64.
\* signal.Signals(n) raises ValueError for every other n.
SignalNames ==
    <<"SIGHUP", "SIGINT", "SIGQUIT", "SIGILL", "SIGTRAP", "SIGABRT", "SIGBUS",
      "SIGFPE", "SIGKILL", "SIGUSR1", "SIGSEGV", "SIGUSR2", "SIGPIPE",
      "SIGALRM", "SIGTERM", "SIGSTKFLT", "SIGCHLD", "SIGCONT", "SIGSTOP",
      "SIGTSTP", "SIGTTIN", "SIGTTOU", "SIGURG", "SIGXCPU", "SIGXFSZ",
      "SIGVTALRM", "SIGPROF", "SIGWINCH", "SIGIO", "SIGPWR", "SIGSYS">>

IsSignalsMember(n) == n \in DOMAIN SignalNames \/ n = 34 \/ n = 64

\* signal.Signals(n).name, for a member n
SignalName(n) ==
    IF n \in DOMAIN SignalNames THEN SignalNames[n]
    ELSE IF n = 34 THEN "SIGRTMIN" ELSE "SIGRTMAX"

NoError == [type |-> "none"]

\* RuntimeError("Command {} exited {}: {}")
ExitedError(code) == [type |-> "RuntimeError", how |-> "exited", what |-> IntValue(code)]
\* RuntimeError("Command {} signaled {}: {}")
SignaledError(name) == [type |-> "RuntimeError", how |-> "signaled", what |-> StrValue(name)]
\* signal.Signals(n) of a number that is no member
ValueError == [type |-> "ValueError"]
\* "memory.max_usage_in_bytes should never decrease"
AssertionError == [type |-> "AssertionError"]

\* The "raise RuntimeError" branch for a non-zero return code rc.
RaiseForStatus(rc) ==
    IF rc > 0 THEN ExitedError(rc)
    ELSE IF IsSignalsMember(-rc) THEN SignaledError(SignalName(-rc))
    ELSE ValueError

\* A variant of Resolve: the non-zero status is raised before check_result
\* is looked at.
ResolveRaiseFirst(check_result, check_output, rc, output) ==
    IF rc # 0
    THEN [returned |-> FALSE, retval |-> NoValue, error |-> RaiseForStatus(rc)]
    ELSE IF check_result
    THEN [returned |-> TRUE, retval |-> IntValue(rc), error |-> NoError]
    ELSE IF check_output
    THEN [returned |-> TRUE, retval |-> StrValue(output), error |-> NoError]
    ELSE [returned |-> TRUE, retval |-> None, error |-> NoError]

\* A variant of Resolve: check_output is looked at before check_result.
ResolveOutputFirst(check_result, check_output, rc, output) ==
    IF check_output /\ rc = 0
    THEN [returned |-> TRUE, retval |-> StrValue(output), error |-> NoError]
    ELSE IF check_result
    THEN [returned |-> TRUE, retval |-> IntValue(rc), error |-> NoError]
    ELSE IF rc # 0
    THEN [returned |-> FALSE, retval |-> NoValue, error |-> RaiseForStatus(rc)]
    ELSE [returned |-> TRUE, retval |-> None, error |-> NoError]

\* A variant of Resolve: "return output or None".
ResolveOutputOrNone(check_result, check_output, rc, output) ==
    IF check_result
    THEN [returned |-> TRUE, retval |-> IntValue(rc), error |-> NoError]
    ELSE IF rc # 0
    THEN [returned |-> FALSE, retval |-> NoValue, error |-> RaiseForStatus(rc)]
    ELSE IF check_output /\ output # ""
    THEN [returned |-> TRUE, retval |-> StrValue(output), error |-> NoError]
    ELSE [returned |-> TRUE, retval |-> None, error |-> NoError]

\* What cactus_call does once communicate() has returned: the return value
\* and the error of [returned |-> BOOLEAN, retval, error].
Resolve(check_result, check_output, rc, output) ==
    IF check_result
    THEN [returned |-> TRUE, retval |-> IntValue(rc), error |-> NoError]
    ELSE IF rc # 0
    THEN [returned |-> FALSE, retval |-> NoValue, error |-> RaiseForStatus(rc)]
    ELSE IF check_output
    THEN [returned |-> TRUE, retval |-> StrValue(output), error |-> NoError]
    ELSE [returned |-> TRUE, retval |-> None, error |-> NoError]

\* A variant of MemAssertHolds: the assert is not evaluated.
MemAssertDropped(mem, updated) == TRUE

\* "assert memUsage <= updatedMemUsage"
MemAssertHolds(mem, updated) == mem <= updated.value

\* A variant of SoftTimeoutExpired: "if soft_timeout and ...", which takes a
\* soft_timeout of 0 for none.
SoftTimeoutTruthy(soft_timeout, t) ==
    soft_timeout # None /\ soft_timeout.value # 0 /\ t > soft_timeout.value

\* A variant of SoftTimeoutExpired: the soft timeout is never looked at.
SoftTimeoutNever(soft_timeout, t) == FALSE

\* "time.time() - start_time > soft_timeout", soft_timeout not None
SoftTimeoutExpired(soft_timeout, t) ==
    soft_timeout # None /\ t > soft_timeout.value

\* what maxMemUsageOfContainer may return: None or a number of bytes
MemSamples == {None} \cup {IntValue(b) : b \in 0..MaxMem}

\* Strings that the code takes apart or puts together (arguments, command
\* lines) are sequences of atoms: an atom is one of the characters the shell
\* gives a meaning to (space, the quotes, "|", and "&&" as one atom), or a
\* run of characters that neither pipes.quote nor the shell treats specially
\* (letters, digits and @%+=:,./-_).
Word(w) == <<w>>

UnsafeAtoms == {" ", "'", "\"", "|", "&&"}

RECURSIVE Join(_, _)
\* sep.join(list)
Join(sep, list) ==
    IF list = <<>> THEN <<>>
    ELSE IF Len(list) = 1 THEN list[1]
    ELSE list[1] \o sep \o Join(sep, Tail(list))

RECURSIVE EscapeQuotes(_)
\* s.replace("'", "'\"'\"'")
EscapeQuotes(s) ==
    IF s = <<>> THEN <<>>
    ELSE (IF Head(s) = "'" THEN <<"'", "\"", "'", "\"", "'">> ELSE <<Head(s)>>)
         \o EscapeQuotes(Tail(s))

\* A variant of Quote: the argument as it is.
QuoteNothing(s) == s

\* pipes.quote(s), which is shlex.quote(s): '' for the empty string, s itself
\* when it holds only safe characters, else s in single quotes with each
\* single quote of s written as '"'"'.
Quote(s) ==
    IF s = <<>> THEN <<"'", "'">>
    ELSE IF \A i \in DOMAIN s : s[i] \notin UnsafeAtoms THEN s
    ELSE <<"'">> \o EscapeQuotes(s) \o <<"'">>

\* A variant of PipefailPrefix: 'set -e && '.
ErrexitPrefix == <<"set", " ", "-e", " ", "&&", " ">>

\* 'set -eo pipefail && '
PipefailPrefix == <<"set", " ", "-eo", " ", "pipefail", " ", "&&", " ">>

\* A variant of ChainCommand: in docker mode the leading 'bash' stays in the
\* parameters.
ChainCommandKeepBash(parameters, mode) ==
    IF Len(parameters.items) > 0 /\ parameters.lists
    THEN LET chain_params ==
                 [i \in DOMAIN parameters.items |->
                     Join(<<" ">>, [j \in DOMAIN parameters.items[i] |->
                                       Quote(parameters.items[i][j])])]
             script == PipefailPrefix \o Join(<<" ", "|", " ">>, chain_params)
             bash == <<Word("bash"), Word("-c"), script>>
         IN  IF mode = "docker"
             THEN [entrypoint |-> StrValue(Word("/bin/bash")), parameters |-> bash]
             ELSE [entrypoint |-> None, parameters |-> bash]
    ELSE [entrypoint |-> None, parameters |-> parameters.items]

\* The command given to cactus_call is [lists, items]: lists says whether
\* parameters[0] is a list, items are the argument lists of the stages when
\* it is, and the arguments when it is not.
\* Lines 1232-1243: a list of lists becomes bash -c with the piped stages as
\* the script; in docker mode bash becomes the entrypoint instead.
ChainCommand(parameters, mode) ==
    IF Len(parameters.items) > 0 /\ parameters.lists
    THEN LET chain_params ==
                 [i \in DOMAIN parameters.items |->
                     Join(<<" ">>, [j \in DOMAIN parameters.items[i] |->
                                       Quote(parameters.items[i][j])])]
             script == PipefailPrefix \o Join(<<" ", "|", " ">>, chain_params)
             bash == <<Word("bash"), Word("-c"), script>>
         IN  IF mode = "docker"
             THEN [entrypoint |-> StrValue(Word("/bin/bash")), parameters |-> Tail(bash)]
             ELSE [entrypoint |-> None, parameters |-> bash]
    ELSE [entrypoint |-> None, parameters |-> parameters.items]

\* dockerCommand with rm=True and no port: the call it returns
DockerCommand(parameters, entrypoint) ==
    <<Word("docker"), Word("run"), Word("--interactive"), Word("--net=host"),
      Word("--log-driver=none"), Word("-u"), Word("uid:gid"),
      Word("-v"), Word("work_dir:/data"), Word("--entrypoint"),
      IF entrypoint # None THEN entrypoint.value ELSE Word("/opt/cactus/wrapper.sh"),
      Word("--name"), Word("uuid4"), Word("--rm"),
      Word("dockstore/tool:tag")>> \o parameters

\* singularityCommand once the sandbox is in the cache: the call it returns
SingularityExec(parameters) ==
    <<Word("singularity"), Word("-q"), Word("exec"), Word("-u"), Word("-B"),
      Word("work_dir:/mnt"), Word("--pwd"), Word("/mnt"),
      Word("sandbox_dirname")>> \o parameters

\* Lines 1245-1261: the call of the selected mode. prepareWorkDir is taken
\* for a call whose work_dir comes out as ".", where it rewrites no
\* parameter.
BuildCall(parameters, mode) ==
    LET cmd == ChainCommand(parameters, mode)
    IN  IF mode = "docker" THEN DockerCommand(cmd.parameters, cmd.entrypoint)
        ELSE IF mode = "singularity" THEN SingularityExec(cmd.parameters)
        ELSE cmd.parameters

\* A variant of StdinHandle: the infile before the stdin_string.
StdinHandleInfileFirst(stdin_string, infile) ==
    IF infile THEN "FILE:r"
    ELSE IF stdin_string # None /\ stdin_string.value # "" THEN "PIPE"
    ELSE "DEVNULL"

\* Lines 1263-1268: "if stdin_string: ... elif infile: ... else: ...";
\* a string is true when it is not empty.
StdinHandle(stdin_string, infile) ==
    IF stdin_string # None /\ stdin_string.value # "" THEN "PIPE"
    ELSE IF infile THEN "FILE:r"
    ELSE "DEVNULL"

\* A variant of StdoutHandle: the outfile wins over check_output.
StdoutHandleOutfileFirst(outfile, outappend, check_output) ==
    IF outfile THEN [handle |-> IF outappend THEN "FILE:a" ELSE "FILE:w",
                     opened |-> IF outappend THEN "FILE:a" ELSE "FILE:w"]
    ELSE IF check_output THEN [handle |-> "PIPE", opened |-> "none"]
    ELSE [handle |-> "None", opened |-> "none"]

\* Lines 1269-1273: stdoutFileHandle starts as None (the child inherits the
\* caller's stdout), an outfile is opened for appending or writing, and
\* check_output replaces whatever there is by a pipe. opened is the mode in
\* which the outfile was opened, whether or not it stays the handle.
StdoutHandle(outfile, outappend, check_output) ==
    LET opened == IF outfile THEN (IF outappend THEN "FILE:a" ELSE "FILE:w")
                  ELSE "none"
    IN  [handle |-> IF check_output THEN "PIPE"
                    ELSE IF outfile THEN opened
                    ELSE "None",
         opened |-> opened]

\* the server tools that are not run under /usr/bin/time
ServerTools == {Word("ktserver"), Word("redis-server")}

\* A variant of TimeV: the server tools are wrapped too.
TimeVServersToo(log_memory, call) == log_memory

\* Line 1282: CACTUS_LOG_MEMORY is set, and neither 'ktserver' nor
\* 'redis-server' is an element of the call.
TimeV(log_memory, call) ==
    log_memory /\ \A t \in ServerTools : t \notin Range(call)

\* '/usr/bin/time -v '
TimePrefix == <<"/usr/bin/time", " ", "-v", " ">>

\* Lines 1263-1295: the arguments of subprocess.Popen for the options o.
\* No caller passes shell=True; how a list is formatted into the command
\* line in that case is left out.
PopenArguments(o) ==
    LET call == BuildCall(o.parameters, o.mode)
        time_v == TimeV(o.log_memory, call)
        out == StdoutHandle(o.outfile, o.outappend, o.check_output)
    IN  [call   |-> IF time_v
                    THEN TimePrefix \o Join(<<" ">>, [i \in DOMAIN call |-> Quote(call[i])])
                    ELSE call,
         shell  |-> time_v \/ o.shell,
         stdin  |-> StdinHandle(o.stdin_string, o.infile),
         stdout |-> out.handle,
         opened |-> out.opened,
         stderr |-> IF time_v \/ o.swallowStdErr THEN "PIPE" ELSE "sys.stderr"]

\* How the shell that Popen(shell=True) and "bash -c" start reads a command
\* line: st = [lists, stages, words, cur, inword, quote] holds the pipelines
\* joined by "&&" read so far, the stages of the current pipeline, the words
\* of the current stage, the current word, whether a word has begun, and the
\* quote that is open ("" for none).
EndWord(st) ==
    IF st.inword
    THEN [st EXCEPT !.words = Append(@, st.cur), !.cur = <<>>, !.inword = FALSE]
    ELSE st

EndStage(st) ==
    LET s == EndWord(st)
    IN  [s EXCEPT !.stages = Append(@, s.words), !.words = <<>>]

EndList(st) ==
    LET s == EndStage(st)
    IN  [s EXCEPT !.lists = Append(@, s.stages), !.stages = <<>>]

\* the shell reads one atom
ReadAtom(st, atom) ==
    IF st.quote # ""
    THEN IF atom = st.quote THEN [st EXCEPT !.quote = ""]
         ELSE [st EXCEPT !.cur = Append(@, atom)]
    ELSE IF atom \in {"'", "\""} THEN [st EXCEPT !.quote = atom, !.inword = TRUE]
    ELSE IF atom = " " THEN EndWord(st)
    ELSE IF atom = "|" THEN EndStage(st)
    ELSE IF atom = "&&" THEN EndList(st)
    ELSE [st EXCEPT !.cur = Append(@, atom), !.inword = TRUE]

RECURSIVE ReadAtoms(_, _, _, _)
\* the shell reads the atoms lo..hi of line, in order (the range is halved
\* only to keep the evaluation shallow)
ReadAtoms(st, line, lo, hi) ==
    IF lo > hi THEN st
    ELSE IF lo = hi THEN ReadAtom(st, line[lo])
    ELSE LET mid  == (lo + hi) \div 2
             left == ReadAtoms(st, line, lo, mid)
         IN  IF left.inword \in BOOLEAN
             THEN ReadAtoms(left, line, mid + 1, hi)
             ELSE left

\* the pipelines of a command line, each a sequence of stages, each stage a
\* sequence of words
ShellParse(line) ==
    EndList(ReadAtoms([lists |-> <<>>, stages |-> <<>>, words |-> <<>>,
                       cur |-> <<>>, inword |-> FALSE, quote |-> ""],
                      line, 1, Len(line))).lists

\* the argument vector that is executed for the Popen arguments p: the call
\* itself, or with shell=True the words the shell reads from it
ExecutedArgv(p) == IF p.shell THEN ShellParse(p.call)[1][1] ELSE p.call

\* the script handed to bash -c: the last argument of a piped command
Script(p) == LET argv == ExecutedArgv(p) IN argv[Len(argv)]

\* whether the script's first command switches pipefail on before "&&"
SetsPipefail(lists) ==
    /\ Len(lists) = 2
    /\ lists[1] \in {<< <<Word("set"), Word("-eo"), Word("pipefail")>> >>,
                     << <<Word("set"), Word("-o"), Word("pipefail")>> >>}

\* the stages of the pipeline the script runs
ScriptStages(p) == LET lists == ShellParse(Script(p)) IN lists[Len(lists)]

RECURSIVE RightmostNonZero(_, _)
\* the status of the rightmost of the stages 1..k that failed, 0 if none did
RightmostNonZero(status, k) ==
    IF k = 0 THEN 0
    ELSE IF status[k] # 0 THEN status[k]
    ELSE RightmostNonZero(status, k - 1)

\* the exit status of bash -c script when the stages of its pipeline exit
\* with `status`: that of the last stage, and with pipefail that of the
\* rightmost stage that failed
ScriptStatus(p, status) ==
    IF SetsPipefail(ShellParse(Script(p)))
    THEN RightmostNonZero(status, Len(status))
    ELSE status[Len(status)]

\* the payloads given as stdin_string
StdinStrings == {None, StrValue(""), StrValue("payload")}

\* "cactus_caf --option": a command given as a flat argument list
FlatCommand == [lists |-> FALSE, items |-> <<Word("cactus_caf"), Word("--option")>>]

\* the options that cactus_call's setup of the child's streams and command
\* line does not look at
PollingDefaults == [check_result : {FALSE}, server : {FALSE}, soft_timeout : {None}]

\* cactus_call has been called: nothing has run yet.
CallStart ==
    /\ callPc = "start"
    /\ exitPath = ""
    /\ retval = NoValue
    /\ error = NoError
    /\ returncode = NoValue
    /\ memUsage = 0
    /\ updatedMemUsage = NoValue
    /\ first_run = TRUE
    /\ elapsed = 0
    /\ polls = 0
    /\ sigints = 0
    /\ popen = NoValue
    /\ communicated = <<>>
    /\ stageStatus = <<>>

\* A call of cactus_call with a flat command, in any mode, with any way of
\* taking the outcome, any soft timeout and any source of stdin.
CallInit ==
    /\ opts \in [mode : Modes, check_output : BOOLEAN, check_result : BOOLEAN,
                 outfile : BOOLEAN, server : BOOLEAN, soft_timeout : SoftTimeouts,
                 stdin_string : StdinStrings, infile : BOOLEAN,
                 outappend : {FALSE}, shell : {FALSE}, swallowStdErr : {FALSE},
                 log_memory : {FALSE}, parameters : {FlatCommand}]
    /\ CallStart

\* the argument lists of the stages that are tried: false, true, an argument
\* with a space, a single quote and a "|" in it, an empty argument, and a
\* server tool
StageLists ==
    {<<Word("false")>>,
     <<Word("true")>>,
     <<Word("echo"), <<"it", "'", "s", " ", "a", "|", "b">> >>,
     <<Word("cat"), <<>>, Word("-")>>,
     <<Word("ktserver"), Word("-port")>>}

\* most stages of a piped command
MaxStages == 2

\* the piped commands: 1..MaxStages argument lists
Chains ==
    UNION {[lists : {TRUE}, items : [1..k -> StageLists]] : k \in 1..MaxStages}

\* the commands given as one flat argument list
FlatCommands == [lists : {FALSE}, items : StageLists \cup {<<Word("redis-server")>>}]

\* the exit statuses of the stages of a pipeline with k stages
StageStatuses(k) == [1..k -> {0, 1}]

\* cactus_call has been called to run a command to its end: with any command
\* in any mode, with or without CACTUS_LOG_MEMORY, or with a flat command
\* and any choice of where stdout and stderr go.
SetupInit ==
    /\ opts \in
          [mode : Modes, log_memory : BOOLEAN, parameters : Chains \cup FlatCommands,
           check_output : {FALSE}, outfile : {FALSE}, outappend : {FALSE},
           swallowStdErr : {FALSE}, stdin_string : {None}, infile : {FALSE},
           shell : {FALSE}, check_result : {FALSE}, server : {FALSE},
           soft_timeout : {None}]
          \cup
          [mode : Modes, log_memory : BOOLEAN, parameters : {FlatCommand},
           check_output : BOOLEAN, outfile : BOOLEAN, outappend : BOOLEAN,
           swallowStdErr : BOOLEAN, stdin_string : {None}, infile : {FALSE},
           shell : {FALSE}, check_result : {FALSE}, server : {FALSE},
           soft_timeout : {None}]
    /\ CallStart

\* subprocess.Popen(...), then "if server: return process", else the
\* initialisation of the polling loop.
Popen ==
    /\ callPc = "start"
    /\ popen' = PopenArguments(opts)
    /\ IF opts.server
       THEN /\ callPc' = "returned"
            /\ exitPath' = "server"
            /\ retval' = ProcessValue
       ELSE /\ callPc' = "polling"
            /\ UNCHANGED <<exitPath, retval>>
    /\ UNCHANGED <<opts, error, returncode, memUsage, updatedMemUsage,
                   first_run, elapsed, polls, sigints, communicated, stageStatus>>
    /\ UNCHANGED otherThanCall

\* One iteration of the loop in which communicate() raises TimeoutExpired:
\* the child is still running PollInterval seconds later. In docker mode the
\* container's memory is sampled (sample) and checked; then the soft timeout.
PollTimeout(sample) ==
    /\ callPc = "polling"
    /\ polls < MaxPolls
    /\ polls' = polls + 1
    /\ communicated' = Append(communicated, IF first_run THEN opts.stdin_string ELSE None)
    /\ elapsed' = elapsed + PollInterval
    /\ IF opts.mode = "docker" /\ sample # None /\ ~MemAssertHolds(memUsage, sample)
       THEN \* the assert fails: AssertionError leaves the call
            /\ updatedMemUsage' = sample
            /\ callPc' = "raised"
            /\ exitPath' = "assert"
            /\ error' = AssertionError
            /\ UNCHANGED <<memUsage, first_run, retval, sigints>>
       ELSE /\ IF opts.mode = "docker"
               THEN /\ updatedMemUsage' = sample
                    /\ memUsage' = IF sample # None THEN sample.value ELSE memUsage
               ELSE UNCHANGED <<updatedMemUsage, memUsage>>
            /\ first_run' = FALSE
            /\ IF SoftTimeoutExpired(opts.soft_timeout, elapsed')
               THEN /\ sigints' = sigints + 1
                    /\ retval' = None
                    /\ callPc' = "returned"
                    /\ exitPath' = "soft_timeout"
               ELSE UNCHANGED <<sigints, retval, callPc, exitPath>>
            /\ UNCHANGED error
    /\ UNCHANGED <<opts, returncode, popen, stageStatus>>
    /\ UNCHANGED otherThanCall

\* The iteration in which communicate() returns: the child has exited with
\* return code rc, having written `output`; the loop breaks and the outcome
\* is resolved.
Completes(rc, output) ==
    /\ callPc = "polling"
    /\ communicated' = Append(communicated, IF first_run THEN opts.stdin_string ELSE None)
    /\ returncode' = IntValue(rc)
    /\ LET r == Resolve(opts.check_result, opts.check_output, rc, output)
       IN  /\ callPc' = IF r.returned THEN "returned" ELSE "raised"
           /\ retval' = r.retval
           /\ error' = r.error
    /\ exitPath' = "completed"
    /\ UNCHANGED <<opts, memUsage, updatedMemUsage, first_run, elapsed, polls,
                   sigints, popen>>
    /\ UNCHANGED otherThanCall

\* The child has exited with return code rc, whatever it ran.
PollComplete(rc, output) ==
    /\ Completes(rc, output)
    /\ UNCHANGED stageStatus

\* The child that runs a piped command has exited: each stage of the
\* pipeline that bash ran has exited with its status, and bash with the
\* status of the script.
PipelineExit(status) ==
    /\ callPc = "polling"
    /\ opts.parameters.lists
    /\ DOMAIN status = DOMAIN ScriptStages(popen)
    /\ stageStatus' = status
    /\ Completes(ScriptStatus(popen, status), "")


----------------------------------------------------------------------------
(* What the claims about ChildTreeJob speak of *)

QueuedJobs == Range(queuedChildJobs)

\* The empty RoundedJobs that _run created.
GroupingUnits == {u \in DOMAIN children : u < Self}

\* The number of entries of children[u] that are jobs of the set `jobs`.
JobEdgesOf(jobs, u) ==
    IF u \in DOMAIN children
    THEN Cardinality({i \in DOMAIN children[u] : children[u][i] \in jobs})
    ELSE 0

RECURSIVE JobEdges(_, _, _)
\* The number of (parent, position) pairs holding a job of `jobs`, over the
\* units lo..hi.
JobEdges(jobs, lo, hi) ==
    IF lo > hi THEN 0
    ELSE IF lo = hi THEN JobEdgesOf(jobs, lo)
    ELSE LET mid == (lo + hi) \div 2
         IN  JobEdges(jobs, lo, mid) + JobEdges(jobs, mid + 1, hi)

\* The number of places in the graph at which a queued job is attached.
TotalJobEdges ==
    LET jobs == QueuedJobs
    IN  JobEdges(jobs, -Cardinality(GroupingUnits), Len(queuedChildJobs))

RECURSIVE UnitsAtDepth(_)
\* The units d addChild edges below the ChildTreeJob.
UnitsAtDepth(d) ==
    IF d = 0 THEN {Self}
    ELSE UNION {Range(children[u]) : u \in UnitsAtDepth(d - 1)}

\* floor(log_m(n)), exactly (no floating point)
FloorLogOfQueue == ExactFloorLog(Len(queuedChildJobs), maxChildrenPerJob)

\* Everything within floor(log_M(N)) + 2 edges of the ChildTreeJob.
ReachableUnits == UNION {UnitsAtDepth(d) : d \in 0..(FloorLogOfQueue + 2)}

\* C1: after _run every queued job is attached to exactly one parent in the
\* graph reachable from the ChildTreeJob, has no children of its own (is a
\* leaf), and none is dropped or attached twice; this for every queue length
\* and every maxChildrenPerJob of the model.
C1_EveryJobExactlyOneLeaf ==
    treePc # "queued" =>
        /\ treePc = "done"
        /\ QueuedJobs \subseteq ReachableUnits
        /\ TotalJobEdges = Len(queuedChildJobs)
        /\ \A j \in QueuedJobs : children[j] = <<>>

\* C1 witness: a run that had to build a tree of more than one level.
C1_Witness ==
    /\ treePc = "done"
    /\ Len(queuedChildJobs) > maxChildrenPerJob * maxChildrenPerJob
    /\ QueuedJobs \subseteq ReachableUnits

\* C2: after _run no unit (the ChildTreeJob, a grouping RoundedJob, also one
\* carried over to a later level's frontier) has more than maxChildrenPerJob
\* children.
C2_FanoutBounded ==
    treePc # "queued" =>
        \A u \in DOMAIN children : Len(children[u]) <= maxChildrenPerJob

\* C2 witness: the final frontier holds a grouping unit of the first level
\* (carried over) next to units of a deeper level, and the root is full.
C2_Witness ==
    /\ treePc = "done"
    /\ Len(children[Self]) = maxChildrenPerJob
    /\ \E i, k \in DOMAIN frontier :
          /\ frontier[i] \in Range(children[Self])
          /\ frontier[k] \notin Range(children[Self])
          /\ Len(children[frontier[k]]) = maxChildrenPerJob

\* C3: with at most maxChildrenPerJob queued jobs (0 and maxChildrenPerJob
\* included) _run creates no grouping unit and attaches every queued job to
\* the ChildTreeJob itself, which ends with exactly N children.
C3_SmallQueueDirect ==
    (treePc # "queued" /\ Len(queuedChildJobs) <= maxChildrenPerJob) =>
        /\ treePc = "done"
        /\ GroupingUnits = {}
        /\ children[Self] = queuedChildJobs
        /\ Len(children[Self]) = Len(queuedChildJobs)

\* C3 witness: the boundary N = maxChildrenPerJob.
C3_Witness ==
    /\ treePc = "done"
    /\ Len(queuedChildJobs) = maxChildrenPerJob
    /\ children[Self] = queuedChildJobs

\* C4 as claimed: for N = 500 and maxChildrenPerJob = 20, _run creates
\* strictly fewer than 500/19 grouping units (at most 26).
C4_Original ==
    (treePc = "done" /\ Len(queuedChildJobs) = 500 /\ maxChildrenPerJob = 20) =>
        Cardinality(GroupingUnits) * 19 < 500

\* C4 as amended: for N = 500 and maxChildrenPerJob = 20, _run attaches the
\* 500 queued jobs as leaves and creates exactly 60 grouping units: 20 below
\* the ChildTreeJob and 40 below the first two of those.
C4_SixtyGroupingUnits ==
    (treePc # "queued" /\ Len(queuedChildJobs) = 500 /\ maxChildrenPerJob = 20) =>
        /\ treePc = "done"
        /\ TotalJobEdges = 500
        /\ Cardinality(GroupingUnits) = 60
        /\ Len(children[Self]) = 20
        /\ Len(children[-1]) = 20 /\ Len(children[-2]) = 20
        /\ \A u \in Range(children[Self]) \ {-1, -2} : children[u] = <<>>

\* C4 witness: the run with 500 queued jobs and the default fan-out.
C4_Witness ==
    /\ treePc = "done"
    /\ Len(queuedChildJobs) = 500
    /\ maxChildrenPerJob = 20
    /\ Cardinality(GroupingUnits) > 26

\* C5: for N > M the queued jobs lie at most floor(log_M(N)) + 1 edges below
\* the ChildTreeJob, that is below at most floor(log_M(N)) levels of grouping
\* units; for N = 500 and M = 20 below at most 3 levels.
C5_DepthBounded ==
    (treePc # "queued" /\ Len(queuedChildJobs) > maxChildrenPerJob) =>
        /\ UnitsAtDepth(FloorLogOfQueue + 2) = {}
        /\ QueuedJobs \subseteq ReachableUnits
        /\ (Len(queuedChildJobs) = 500 /\ maxChildrenPerJob = 20)
              => UnitsAtDepth(5) = {}

\* C5 witness: queued jobs that lie exactly floor(log_M(N)) + 1 edges below
\* the root, with at least two levels of grouping units.
C5_Witness ==
    /\ treePc = "done"
    /\ Len(queuedChildJobs) > maxChildrenPerJob
    /\ FloorLogOfQueue >= 2
    /\ UnitsAtDepth(FloorLogOfQueue + 1) \cap QueuedJobs # {}


----------------------------------------------------------------------------
(* What the claims about cactus_call speak of *)

\* The values cactus_call can return, under the options o, when the child
\* ran to completion.
CompletionValues(o) ==
    {Resolve(o.check_result, o.check_output, rc, output).retval :
        <<rc, output>> \in {x \in ReturnCodes \X ChildOutputs :
            Resolve(o.check_result, o.check_output, x[1], x[2]).returned}}

\* C6: in check_result mode, once the child has exited, cactus_call returns
\* its return code (0, a positive exit status such as 7, or the negative code
\* of a signal) and raises nothing.
C6_CheckResultReturnsStatus ==
    (opts.check_result /\ exitPath = "completed") =>
        /\ callPc = "returned"
        /\ returncode \in {IntValue(rc) : rc \in ReturnCodes}
        /\ retval = returncode
        /\ error = NoError

\* C6 witness: exit status 7 returned in check_result mode.
C6_Witness ==
    /\ opts.check_result
    /\ exitPath = "completed"
    /\ returncode = IntValue(7)
    /\ retval = IntValue(7)

\* C7 as claimed: without check_result, once the child has exited, status 0
\* never raises, a positive status raises "exited <code>" and a negative one
\* raises "signaled <NAME>" with the name of the terminating signal.
C7_RaisesForEveryNonZeroStatus ==
    (~opts.check_result /\ exitPath = "completed") =>
        /\ returncode.value = 0 => (callPc = "returned" /\ error = NoError)
        /\ returncode.value > 0 =>
              (callPc = "raised" /\ error = ExitedError(returncode.value))
        /\ returncode.value < 0 =>
              /\ callPc = "raised"
              /\ error.type = "RuntimeError"
              /\ error.how = "signaled"
              /\ error.what.type = "str"

\* C8 as claimed: with a soft timeout set, the first poll expiry at which the
\* elapsed time exceeds it (and no earlier one) ends the call: one SIGINT,
\* None returned, nothing raised, the child not waited for, at most one
\* polling interval after the soft timeout.
C8_Original ==
    /\ (opts.soft_timeout # None /\ elapsed > opts.soft_timeout.value) =>
          /\ callPc = "returned"
          /\ exitPath = "soft_timeout"
          /\ retval = None
          /\ error = NoError
          /\ sigints = 1
          /\ returncode = NoValue
          /\ elapsed <= opts.soft_timeout.value + PollInterval
    /\ exitPath = "soft_timeout" =>
          (opts.soft_timeout # None /\ elapsed > opts.soft_timeout.value)

\* C8 as amended: the same, unless in docker mode the memory sample taken at
\* that poll is below the recorded peak: then the assertion error leaves the
\* call before the soft timeout is looked at, and no signal is sent.
C8_SoftTimeoutReturnsNone ==
    /\ (opts.soft_timeout # None /\ elapsed > opts.soft_timeout.value) =>
          \/ /\ callPc = "returned"
             /\ exitPath = "soft_timeout"
             /\ retval = None
             /\ error = NoError
             /\ sigints = 1
             /\ returncode = NoValue
             /\ elapsed <= opts.soft_timeout.value + PollInterval
          \/ /\ opts.mode = "docker"
             /\ callPc = "raised"
             /\ exitPath = "assert"
             /\ error = AssertionError
             /\ updatedMemUsage # None
             /\ updatedMemUsage.value < memUsage
             /\ sigints = 0
    /\ exitPath = "soft_timeout" =>
          (opts.soft_timeout # None /\ elapsed > opts.soft_timeout.value)

\* C8 witness: the call gave up at its second poll, exactly one polling
\* interval after the soft timeout, the child still running.
C8_Witness ==
    /\ exitPath = "soft_timeout"
    /\ polls = 2
    /\ elapsed = opts.soft_timeout.value + PollInterval
    /\ sigints = 1
    /\ retval = None
    /\ returncode = NoValue

\* C9 as claimed: whatever the options, the value returned on soft-timeout
\* expiry is none of the values the call can return when the child ran to
\* completion.
C9_Original ==
    exitPath = "soft_timeout" => retval \notin CompletionValues(opts)

\* C9 as amended: the value returned on soft-timeout expiry is None; it is
\* none of the values a completed call can return exactly when check_result
\* or check_output is requested (a completed call then returns an int or a
\* str); with neither, a completed call returns None as well.
C9_DistinguishableWhenCapturing ==
    exitPath = "soft_timeout" =>
        /\ retval = None
        /\ (opts.check_result \/ opts.check_output)
              <=> retval \notin CompletionValues(opts)
        /\ (~opts.check_result /\ ~opts.check_output)
              => CompletionValues(opts) = {None}

\* C9 witness: a soft-timeout return of a call that asked for the output.
C9_Witness ==
    /\ exitPath = "soft_timeout"
    /\ opts.check_output
    /\ ~opts.check_result
    /\ retval = None
    /\ StrValue("") \in CompletionValues(opts)

\* C10: in docker mode the recorded peak memory never decreases from poll to
\* poll: a sample that is not None and not below the recorded value replaces
\* it, a None sample leaves it unchanged, and a lower sample makes the call
\* fail with an assertion error.
C10_PeakMemoryMonotone ==
    [][ /\ memUsage' >= memUsage
        /\ (polls' = polls + 1 /\ opts.mode = "docker") =>
              /\ updatedMemUsage' = None =>
                    (memUsage' = memUsage /\ error' = NoError)
              /\ (updatedMemUsage' # None /\ updatedMemUsage'.value >= memUsage) =>
                    (memUsage' = updatedMemUsage'.value /\ error' = NoError)
              /\ (updatedMemUsage' # None /\ updatedMemUsage'.value < memUsage) =>
                    /\ callPc' = "raised"
                    /\ error' = AssertionError
                    /\ memUsage' = memUsage
      ]_vars

\* C10 witness: a sample below the recorded peak has ended the call.
C10_Witness ==
    /\ opts.mode = "docker"
    /\ callPc = "raised"
    /\ error = AssertionError
    /\ polls >= 2
    /\ updatedMemUsage.value < memUsage

----------------------------------------------------------------------------
(* RoundedJob *)

\* Byte counts are Python integers, which have no upper limit. They are
\* written here in two digits of base Limb (2^20, one MiB): the value of
\* [hi, lo] is hi * Limb + lo with 0 <= lo < Limb, so that 4 GiB and more
\* can be counted to the byte.
Limb == 1048576

Norm(hi, lo) == [hi |-> hi + (lo \div Limb), lo |-> lo % Limb]

\* the integer n, 0 <= n < 2^31, as a byte count
Bytes(n) == Norm(0, n)

\* n * 1024 * 1024
MiB(n) == [hi |-> n, lo |-> 0]

BigAdd(a, b) == Norm(a.hi + b.hi, a.lo + b.lo)

\* a - b
BigSub(a, b) == Norm(a.hi - b.hi, a.lo - b.lo)

\* q * a for a small integer q
BigMul(q, a) == Norm(q * a.hi, q * a.lo)

BigLeq(a, b) == a.hi < b.hi \/ (a.hi = b.hi /\ a.lo <= b.lo)

BigLess(a, b) == BigLeq(a, b) /\ a # b

\* x // d for x >= 0 and d >= Limb: the q with q * d <= x < (q + 1) * d,
\* which lies between x.hi / (d.hi + 1) and (x.hi + 1) / d.hi
BigFloorDiv(x, d) ==
    CHOOSE q \in (x.hi \div (d.hi + 1))..((x.hi + 1) \div d.hi + 1) :
        BigLeq(BigMul(q, d), x) /\ BigLess(x, BigMul(q + 1, d))

\* x % d for x >= 0
BigMod(x, d) == BigSub(x, BigMul(BigFloorDiv(x, d), d))

\* "roundingAmount = 100*1024*1024"
DefaultRoundingAmount == MiB(100)

\* "j.roundingAmount = 100000000" of roundUp's doctest
DoctestRoundingAmount == Bytes(100000000)

\* the arguments of roundUp's doctest
DoctestArguments == {Bytes(1000), Bytes(200000000), Bytes(200000001)}

\* "1500*1024*1024", the extra disk of every RoundedJob
DiskSurcharge == MiB(1500)

\* "memory = 4*1024*1024*1024" of LastzRepeatMaskJob
LastzMemory == MiB(4 * 1024)

\* most whole rounding amounts in a requirement that is tried, and most
\* bytes above a whole number of rounding amounts
MaxMultiple == 1
MaxRemainder == 1

\* the requirements that are tried: around the multiples of both rounding
\* amounts, and the doctest's arguments
Requirements ==
    LET amounts == {DefaultRoundingAmount, DoctestRoundingAmount}
    IN  {BigAdd(BigMul(k, a), Bytes(d)) :
             k \in 0..MaxMultiple, d \in 0..MaxRemainder, a \in amounts}
        \cup {BigSub(BigMul(k, a), Bytes(1)) : k \in 1..(MaxMultiple + 1), a \in amounts}
        \cup DoctestArguments

\* the sizes of the sequence files of a LastzRepeatMaskJob
SequenceSizes == {Bytes(0), Bytes(1), MiB(25), MiB(50)}

\* A variant of RoundUp: no test for an exact multiple.
RoundUpAlwaysNext(bytesRequirement, amount) ==
    BigMul(BigFloorDiv(bytesRequirement, amount) + 1, amount)

\* RoundedJob.roundUp with self.roundingAmount = amount
RoundUp(bytesRequirement, amount) ==
    IF BigMod(bytesRequirement, amount) = Bytes(0)
    THEN bytesRequirement
    ELSE BigMul(BigFloorDiv(bytesRequirement, amount) + 1, amount)

\* A variant of RoundedRequirements: the disk is rounded like the memory,
\* with nothing added.
RoundedRequirementsNoSurcharge(memory, disk, amount) ==
    [memory |-> IF memory # None THEN RoundUp(memory, amount) ELSE memory,
     disk   |-> IF disk # None THEN RoundUp(disk, amount) ELSE disk]

\* The body of RoundedJob.__init__ before super().__init__: the memory and
\* the disk that are handed to Job.__init__.
RoundedRequirements(memory, disk, amount) ==
    [memory |-> IF memory # None THEN RoundUp(memory, amount) ELSE memory,
     disk   |-> IF disk # None
                THEN BigAdd(DiskSurcharge, RoundUp(disk, amount))
                ELSE disk]

\* No RoundedJob has been constructed; roundingAmount is the class attribute.
RoundInit ==
    /\ roundingAmount = DefaultRoundingAmount
    /\ declared = NoValue
    /\ requested = NoValue
    /\ lastRound = NoValue
    /\ roundPc = "new"

\* j = RoundedJob(memory=memory, disk=disk)
RoundedJobInit(memory, disk) ==
    /\ roundPc = "new"
    /\ declared' = [memory |-> memory, disk |-> disk]
    /\ requested' = RoundedRequirements(memory, disk, roundingAmount)
    /\ roundPc' = "constructed"
    /\ UNCHANGED <<roundingAmount, lastRound>>
    /\ UNCHANGED otherThanRound

\* j = LastzRepeatMaskJob(...): 4 GiB of memory, and twice the size of the
\* query and target files as disk, handed to RoundedJob.__init__.
LastzRepeatMaskJobInit(querySize, targetsSize) ==
    RoundedJobInit(LastzMemory, BigMul(2, BigAdd(querySize, targetsSize)))

\* j.roundingAmount = amount
SetRoundingAmount(amount) ==
    /\ roundPc = "constructed"
    /\ roundingAmount' = amount
    /\ UNCHANGED <<declared, requested, lastRound, roundPc>>
    /\ UNCHANGED otherThanRound

\* j.roundUp(bytesRequirement)
RoundUpCall(bytesRequirement) ==
    /\ roundPc = "constructed"
    /\ lastRound' = [arg    |-> bytesRequirement,
                     amount |-> roundingAmount,
                     result |-> RoundUp(bytesRequirement, roundingAmount)]
    /\ UNCHANGED <<roundingAmount, declared, requested, roundPc>>
    /\ UNCHANGED otherThanRound

\* whether x is a whole number of amounts
IsMultipleOf(x, amount) == \E k \in 0..(x.hi + 1) : x = BigMul(k, amount)

C15_RequirementsRounded ==
    roundPc = "constructed" =>
        /\ declared.memory = None <=> requested.memory = None
        /\ declared.disk = None <=> requested.disk = None
        /\ declared.memory # None =>
               /\ requested.memory = RoundUp(declared.memory, MiB(100))
               /\ IsMultipleOf(requested.memory, MiB(100))
               /\ BigLeq(declared.memory, requested.memory)
        /\ declared.disk # None =>
               /\ requested.disk = BigAdd(RoundUp(declared.disk, MiB(100)), MiB(1500))
               /\ IsMultipleOf(requested.disk, MiB(100))
               /\ BigLeq(declared.disk, requested.disk)
        /\ declared.memory = MiB(4096) => requested.memory = MiB(4100)

\* C15 witness: a LastzRepeatMaskJob over 50 MiB + 1 byte of sequence: 4100
\* MiB of memory and 1500 + 200 MiB of disk are requested.
C15_Witness ==
    /\ roundPc = "constructed"
    /\ declared.memory = MiB(4096)
    /\ requested.memory = MiB(4100)
    /\ declared.disk = BigAdd(MiB(100), Bytes(2))
    /\ requested.disk = MiB(1700)

\* C19: with roundingAmount = 100000000, roundUp(1000) returns 10000000,
\* roundUp(200000000) returns 200000000 and roundUp(200000001) returns
\* 300000000, as the doctest of roundUp states.
C19_DoctestValues ==
    (lastRound # NoValue /\ lastRound.amount = Bytes(100000000)) =>
        /\ lastRound.arg = Bytes(1000) => lastRound.result = Bytes(10000000)
        /\ lastRound.arg = Bytes(200000000) => lastRound.result = Bytes(200000000)
        /\ lastRound.arg = Bytes(200000001) => lastRound.result = Bytes(300000000)

----------------------------------------------------------------------------
(* singularityCommand: the sandbox cache *)

\* most concurrent callers of singularityCommand for one image, sharing one
\* cache directory
MaxCallers == 3

Callers == 1..MaxCallers

\* sandbox_dirname: cache_dir joined with the sha256 of the image reference,
\* the same for every caller of the same image
SandboxDirname == "cache_dir/toil/sha256(tool).sandbox"

\* What rename(2) reports when the new path is a non-empty directory: POSIX
\* leaves the choice between ENOTEMPTY and EEXIST to the file system.
RenameErrnos == {"ENOTEMPTY", "EEXIST"}

CalledProcessError == [type |-> "CalledProcessError"]
OSError(errno) == [type |-> "OSError", errno |-> errno]

\* A variant of NeedsBuild: the sandbox is built whatever the test found.
NeedsBuildAlways(exists) == TRUE

\* "if not os.path.exists(sandbox_dirname)"
NeedsBuild(exists) == ~exists

\* "return baseSingularityCall + [sandbox_dirname] + parameters"
SingularityCall == <<"singularity", "-q", "exec", SandboxDirname>>

\* No caller has started, the cache directory holds nothing.
SingInit ==
    /\ sandbox = <<>>
    /\ tempSandboxes = {}
    /\ renameErrno \in RenameErrnos
    /\ callers = [p \in Callers |->
                     [pc |-> "start", found |-> "unchecked", builds |-> 0,
                      error |-> NoError, command |-> NoValue]]

\* Caller p tests os.path.exists(sandbox_dirname); when the sandbox is there
\* it returns the command at once.
Exists(p) ==
    /\ callers[p].pc = "start"
    /\ LET exists == sandbox # <<>>
       IN  callers' = [callers EXCEPT
               ![p].found = IF exists THEN "present" ELSE "absent",
               ![p].pc = IF NeedsBuild(exists) THEN "mkdtemp" ELSE "returned",
               ![p].command = IF NeedsBuild(exists) THEN @ ELSE SingularityCall]
    /\ UNCHANGED <<sandbox, tempSandboxes, renameErrno>>
    /\ UNCHANGED otherThanSing

\* temp_sandbox_dirname = tempfile.mkdtemp(dir=cache_dir)
Mkdtemp(p) ==
    /\ callers[p].pc = "mkdtemp"
    /\ tempSandboxes' = tempSandboxes \cup {p}
    /\ callers' = [callers EXCEPT ![p].pc = "build"]
    /\ UNCHANGED <<sandbox, renameErrno>>
    /\ UNCHANGED otherThanSing

\* subprocess.check_call(['singularity', 'build', '-s', '-F', temp, tool]):
\* the build fills the temporary sandbox, or fails and CalledProcessError
\* leaves singularityCommand.
Build(p, ok) ==
    /\ callers[p].pc = "build"
    /\ callers' = [callers EXCEPT
           ![p].builds = @ + 1,
           ![p].pc = IF ok THEN "rename" ELSE "raised",
           ![p].error = IF ok THEN @ ELSE CalledProcessError]
    /\ UNCHANGED <<sandbox, tempSandboxes, renameErrno>>
    /\ UNCHANGED otherThanSing

\* A variant of Rename: the rename replaces a sandbox that is in place.
RenameOverwrites(p) ==
    /\ callers[p].pc = "rename"
    /\ sandbox' = Append(sandbox, p)
    /\ tempSandboxes' = tempSandboxes \ {p}
    /\ callers' = [callers EXCEPT ![p].pc = "returned",
                                  ![p].command = SingularityCall]
    /\ UNCHANGED renameErrno
    /\ UNCHANGED otherThanSing

\* os.rename(temp_sandbox_dirname, sandbox_dirname) and its except clause:
\* the rename installs the sandbox when none is there; otherwise OSError is
\* raised, and with errno EEXIST the caller asserts that the sandbox exists
\* and removes its own copy, while any other errno is raised again.
Rename(p) ==
    /\ callers[p].pc = "rename"
    /\ IF sandbox = <<>>
       THEN /\ sandbox' = Append(sandbox, p)
            /\ tempSandboxes' = tempSandboxes \ {p}
            /\ callers' = [callers EXCEPT ![p].pc = "returned",
                                          ![p].command = SingularityCall]
       ELSE IF renameErrno = "EEXIST"
       THEN /\ tempSandboxes' = tempSandboxes \ {p}
            /\ callers' = [callers EXCEPT ![p].pc = "returned",
                                          ![p].command = SingularityCall]
            /\ UNCHANGED sandbox
       ELSE /\ callers' = [callers EXCEPT ![p].pc = "raised",
                                          ![p].error = OSError(renameErrno)]
            /\ UNCHANGED <<sandbox, tempSandboxes>>
    /\ UNCHANGED renameErrno
    /\ UNCHANGED otherThanSing

RECURSIVE SumBuilds(_)
\* the builds of the callers 1..p together
SumBuilds(p) == IF p = 0 THEN 0 ELSE callers[p].builds + SumBuilds(p - 1)

\* every caller has returned or raised
AllCallersFinished == \A p \in Callers : callers[p].pc \in {"returned", "raised"}

\* C12 as stated: among the concurrent callers of one image the build runs
\* exactly once, under every interleaving (here: of callers whose builds
\* succeed).
C12_Original ==
    (AllCallersFinished /\ \A p \in Callers : callers[p].error # CalledProcessError)
        => SumBuilds(MaxCallers) = 1

\* C12: a caller builds the sandbox exactly when it found the sandbox
\* directory absent, and then once; a caller that found it present builds
\* nothing; so the build runs at least once before a sandbox is installed,
\* and as often as callers made their test before the first rename.
C12_BuildOncePerCallerThatFoundNone ==
    /\ \A p \in Callers :
           /\ callers[p].builds <= 1
           /\ callers[p].found = "present" => callers[p].builds = 0
           /\ (callers[p].found = "absent" /\ callers[p].pc \in {"rename", "returned", "raised"})
                  => callers[p].builds = 1
    /\ sandbox # <<>> => SumBuilds(MaxCallers) >= 1
    /\ AllCallersFinished => SumBuilds(MaxCallers) >= 1

\* C12 witness: all callers have finished, one found the sandbox in place
\* and two have built it.
C12_Witness ==
    /\ AllCallersFinished
    /\ SumBuilds(MaxCallers) >= 2
    /\ \E p \in Callers : callers[p].found = "present"

\* C13: when two or more callers have built and every build succeeded,
\* exactly one rename has installed the sandbox, every other builder has
\* removed its temporary directory and raised no error, every caller has
\* returned a command naming the same sandbox path, and the cache holds the
\* sandbox and no temporary sandbox.
C13_RenameRaceResolved ==
    (/\ AllCallersFinished
     /\ SumBuilds(MaxCallers) >= 2
     /\ \A p \in Callers : callers[p].error # CalledProcessError)
    => /\ Len(sandbox) = 1
       /\ tempSandboxes = {}
       /\ \A p \in Callers :
              /\ callers[p].pc = "returned"
              /\ callers[p].error = NoError
              /\ callers[p].command = SingularityCall

----------------------------------------------------------------------------
(* Claims about the shape of the tree, continued *)

\* C20: after _run has built a tree (more queued jobs than maxChildrenPerJob),
\* the direct children of every unit are all grouping units or all queued
\* jobs, never a mix; a unit that was expanded into grouping units receives
\* no queued job; and queued jobs are attached only to units of the final
\* frontier.
C20_ChildrenHomogeneous ==
    (treePc = "done" /\ Len(queuedChildJobs) > maxChildrenPerJob) =>
        LET jobs == QueuedJobs
            last == Range(frontier)
        IN  \A u \in DOMAIN children :
                LET cs == Range(children[u])
                IN  /\ cs \subseteq jobs \/ cs \cap jobs = {}
                    /\ cs \cap jobs # {} => u \in last
                    /\ (\E c \in cs : c < Self) => (cs \cap jobs = {} /\ u \notin last)

\* C20 witness: a tree in which a grouping unit was itself expanded, and a
\* unit of the final frontier holds queued jobs.
C20_Witness ==
    /\ treePc = "done"
    /\ Len(queuedChildJobs) > maxChildrenPerJob
    /\ \E u \in GroupingUnits :
           children[u] # <<>> /\ \A i \in DOMAIN children[u] : children[u][i] < Self
    /\ \E u \in Range(frontier) :
           children[u] # <<>> /\ \A i \in DOMAIN children[u] : children[u][i] > Self

----------------------------------------------------------------------------
(* Claims about the child's streams and command line *)

\* the stdin_string is one that Python takes for true: a non-empty string
HasPayload(o) == o.stdin_string # None /\ o.stdin_string.value # ""

\* the payload is handed to communicate() on the first poll and on no other
WrittenOnFirstPollOnly ==
    \A i \in DOMAIN communicated :
        communicated[i] = IF i = 1 THEN opts.stdin_string ELSE None

\* C16 as stated: the child's stdin follows a strict precedence: a supplied
\* stdin_string is piped to the child (and written on the first poll only),
\* otherwise a supplied infile is opened for reading, otherwise the null
\* device; with both a stdin_string and an infile the file is not used.
C16_Original ==
    popen # NoValue =>
        /\ popen.stdin = IF opts.stdin_string # None THEN "PIPE"
                         ELSE IF opts.infile THEN "FILE:r"
                         ELSE "DEVNULL"
        /\ WrittenOnFirstPollOnly

\* C16: the child's stdin follows a strict precedence: a supplied non-empty
\* stdin_string is piped to the child (and handed to communicate on the
\* first poll only), otherwise (none, or the empty string) a supplied infile
\* is opened for reading, otherwise the null device; with both a non-empty
\* stdin_string and an infile the file is not used.
C16_StdinPrecedence ==
    popen # NoValue =>
        /\ popen.stdin = IF HasPayload(opts) THEN "PIPE"
                         ELSE IF opts.infile THEN "FILE:r"
                         ELSE "DEVNULL"
        /\ WrittenOnFirstPollOnly
        /\ Len(communicated) = polls + (IF exitPath = "completed" THEN 1 ELSE 0)

\* C16 witness: with a payload and an infile the pipe was chosen, and the
\* second poll handed nothing to communicate.
C16_Witness ==
    /\ popen # NoValue
    /\ HasPayload(opts)
    /\ opts.infile
    /\ popen.stdin = "PIPE"
    /\ Len(communicated) >= 2
    /\ communicated[1] = StrValue("payload")
    /\ communicated[2] = None

\* the arguments of the stages of the piped command, and of the flat command
GivenArguments(o) ==
    IF o.parameters.lists
    THEN UNION {Range(o.parameters.items[i]) : i \in DOMAIN o.parameters.items}
    ELSE Range(o.parameters.items)

\* s.startswith(prefix)
StartsWith(s, prefix) ==
    Len(s) >= Len(prefix) /\ SubSeq(s, 1, Len(prefix)) = prefix

\* the last k elements of a sequence
LastOf(s, k) == SubSeq(s, Len(s) - k + 1, Len(s))

C17_Original ==
    popen # NoValue =>
        popen.stdout = IF opts.check_output THEN "PIPE"
                       ELSE IF opts.outfile
                       THEN (IF opts.outappend THEN "FILE:a" ELSE "FILE:w")
                       ELSE "DEVNULL"

\* C17: stdout has one destination: captured when check_output is requested,
\* otherwise redirected to the outfile (appending when outappend, else
\* truncating) when one is given, otherwise not redirected at all (None: the
\* child writes to the caller's stdout); an outfile given along with
\* check_output is still opened in its mode, but is not the destination.
C17_StdoutDestination ==
    popen # NoValue =>
        /\ popen.stdout = IF opts.check_output THEN "PIPE"
                          ELSE IF opts.outfile
                          THEN (IF opts.outappend THEN "FILE:a" ELSE "FILE:w")
                          ELSE "None"
        /\ popen.opened = IF opts.outfile
                          THEN (IF opts.outappend THEN "FILE:a" ELSE "FILE:w")
                          ELSE "none"

\* C17 witness: with check_output and an outfile the output is captured, and
\* the outfile has been opened for writing.
C17_Witness ==
    /\ popen # NoValue
    /\ opts.check_output
    /\ opts.outfile
    /\ ~opts.outappend
    /\ popen.stdout = "PIPE"
    /\ popen.opened = "FILE:w"

\* the command line starts with '/usr/bin/time -v '
Wrapped(p) ==
    /\ p.shell
    /\ StartsWith(p.call, <<"/usr/bin/time", " ", "-v", " ">>)

\* C18 as stated: the /usr/bin/time -v wrapper is prepended exactly when
\* CACTUS_LOG_MEMORY is set, the backend is local and the command is not
\* ktserver or redis-server; docker and singularity invocations are never
\* wrapped.
C18_Original ==
    popen # NoValue =>
        (Wrapped(popen) <=>
            /\ opts.log_memory
            /\ opts.mode = "local"
            /\ GivenArguments(opts) \cap ServerTools = {})

\* C18: the /usr/bin/time -v wrapper is prepended exactly when
\* CACTUS_LOG_MEMORY is set and neither 'ktserver' nor 'redis-server' is an
\* element of the argument list that was built, in every mode: docker and
\* singularity invocations are wrapped as well, and so is a piped command
\* with a server tool in its script. The wrapped call runs through the
\* shell, with stderr captured, and the shell reads back /usr/bin/time -v
\* followed by the arguments that were built.
C18_TimeWrapper ==
    popen # NoValue =>
        LET call == BuildCall(opts.parameters, opts.mode)
        IN  /\ Wrapped(popen) <=>
                  /\ opts.log_memory
                  /\ opts.parameters.lists
                        \/ Range(opts.parameters.items) \cap ServerTools = {}
            /\ Wrapped(popen) =>
                  /\ popen.stderr = "PIPE"
                  /\ ExecutedArgv(popen) = <<Word("/usr/bin/time"), Word("-v")>> \o call
            /\ ~Wrapped(popen) => (popen.call = call /\ ~popen.shell)

\* C18 witness: a docker invocation has been wrapped.
C18_Witness ==
    /\ popen # NoValue
    /\ opts.mode = "docker"
    /\ Wrapped(popen)
    /\ ExecutedArgv(popen)[3] = Word("docker")

----------------------------------------------------------------------------
(* Claims about the leaves of the tree *)

\* The units to which _run's leaf loop offers queued jobs, in the order of
\* the loop: the final prev_level.
FrontierSize == Len(frontier)

\* ceil(n / m)
CeilDiv(n, m) == (n + m - 1) \div m

\* C21: for N > M the i-th queued job (counted from 0) is attached to the
\* frontier unit at position floor(i/M) (counted from 0): every frontier unit
\* hosts a contiguous run of the queue, in queue order, the first floor(N/M)
\* frontier units host exactly M jobs, and the units at positions
\* ceil(N/M) and beyond host none.
C21_LeavesInContiguousRuns ==
    LET n == Len(queuedChildJobs)
        m == maxChildrenPerJob
    IN  (treePc = "done" /\ n > m) =>
            /\ FrontierSize >= CeilDiv(n, m)
            /\ \A i \in 1..n :
                  \E k \in DOMAIN children[frontier[((i - 1) \div m) + 1]] :
                      /\ k = ((i - 1) % m) + 1
                      /\ children[frontier[((i - 1) \div m) + 1]][k] = queuedChildJobs[i]
            /\ \A p \in DOMAIN frontier :
                  /\ children[frontier[p]] =
                        SubSeq(queuedChildJobs, Min((p - 1) * m, n) + 1, Min(p * m, n))
                  /\ p <= n \div m => Len(children[frontier[p]]) = m
                  /\ p > CeilDiv(n, m) => children[frontier[p]] = <<>>

\* C21 witness: a tree whose frontier has full units, one partly filled unit
\* and units left empty.
C21_Witness ==
    LET n == Len(queuedChildJobs)
        m == maxChildrenPerJob
    IN  /\ treePc = "done"
        /\ n > m
        /\ n % m # 0
        /\ FrontierSize > CeilDiv(n, m)
        /\ Len(children[frontier[CeilDiv(n, m)]]) = n % m
        /\ children[frontier[FrontierSize]] = <<>>

\* C22: the assertion leaves_added == len(queuedChildJobs) at the end of _run
\* never fails, for every queue length N > M of the model: after the
\* expansion rounds (early stop and carried units included) the frontier has
\* at least N/M units, so that the leaf loop has room for every queued job.
C22_AssertionHolds ==
    /\ treePc # "assert_failed"
    /\ (treePc = "done" /\ Len(queuedChildJobs) > maxChildrenPerJob) =>
          FrontierSize * maxChildrenPerJob >= Len(queuedChildJobs)

\* C22 witness: a run whose last round stopped expanding early and carried a
\* unit of the level above into the frontier, and a run with just enough room
\* (N = 243, M = 3, where math.log falls below 5).
C22_Witness ==
    /\ treePc = "done"
    /\ Len(queuedChildJobs) > maxChildrenPerJob
    /\ \/ \E i, k \in DOMAIN frontier :
             /\ frontier[i] \in Range(children[Self])
             /\ frontier[k] \notin Range(children[Self])
             /\ FrontierSize * maxChildrenPerJob > Len(queuedChildJobs)
       \/ /\ <<Len(queuedChildJobs), maxChildrenPerJob>> \in FloatLogLow
          /\ FrontierSize * maxChildrenPerJob = Len(queuedChildJobs)

RECURSIVE LeavesOf(_, _)
\* The jobs below the frontier units at positions lo..hi, in the order in
\* which the engine holds them.
LeavesOf(lo, hi) ==
    IF lo > hi THEN <<>>
    ELSE IF lo = hi THEN children[frontier[lo]]
    ELSE LET mid == (lo + hi) \div 2
         IN  LeavesOf(lo, mid) \o LeavesOf(mid + 1, hi)

\* The queued jobs as the engine holds them after _run.
AttachedJobs ==
    IF frontier = <<>> THEN children[Self] ELSE LeavesOf(1, FrontierSize)

\* No unit has a child: the engine sees no children.
NothingAttached == \A u \in DOMAIN children : children[u] = <<>>

\* C23: addChild only appends the job to the internal queue and returns it,
\* attaching nothing; before _run, and until the job's run body has returned,
\* the engine sees no children; the attachment happens inside _run after the
\* run body; every job queued before or during the run body is then attached,
\* in the order of the addChild calls.
C23_AttachedOnlyByRun ==
    /\ [](treePc = "queued" => NothingAttached)
    /\ [](treePc # "queued" => queuedAtRun >= 0)
    /\ [](treePc = "done" => AttachedJobs = queuedChildJobs)
    /\ [][queuedChildJobs' # queuedChildJobs =>
             /\ queuedChildJobs' = Append(queuedChildJobs, addChildRet'[1])
             /\ \A u \in DOMAIN children : children'[u] = children[u]
             /\ NothingAttached'
             /\ frontier' = frontier
             /\ treePc' = treePc]_vars
    /\ [][~NothingAttached' => (treePc = "queued" /\ queuedAtRun >= 0)]_vars

\* C23 witness: a job queued before _run and more jobs queued by the run
\* body, all attached through a tree, in order.
C23_Witness ==
    /\ treePc = "done"
    /\ queuedAtRun = 1
    /\ Len(queuedChildJobs) > maxChildrenPerJob
    /\ AttachedJobs = queuedChildJobs
    /\ addChildRet = <<queuedChildJobs[Len(queuedChildJobs)]>>


----------------------------------------------------------------------------
(* Claims about the entry point of the container *)

\* The positions of argv that hold the word w.
PositionsOf(argv, w) == {i \in DOMAIN argv : argv[i] = w}

\* The arguments that follow the image name in a docker call.
AfterImage(argv) ==
    LET k == CHOOSE i \in PositionsOf(argv, Word("dockstore/tool:tag")) : TRUE
    IN  SubSeq(argv, k + 1, Len(argv))

\* C24: in docker mode the entry point is '/bin/bash' exactly when the
\* command is a pipe chain, and then the leading 'bash' is dropped, so that
\* the container's parameters are '-c' and the script; a flat command runs
\* under the default entry point '/opt/cactus/wrapper.sh' with its arguments
\* as given; the local and singularity modes keep 'bash', '-c', script and
\* name no entry point.
C24_DockerEntrypoint ==
    popen # NoValue =>
        LET argv == ExecutedArgv(popen)
            entry == PositionsOf(argv, Word("--entrypoint"))
        IN  IF opts.mode = "docker"
            THEN /\ Cardinality(entry) = 1
                 /\ \A i \in entry :
                       /\ i < Len(argv)
                       /\ argv[i + 1] = Word("/bin/bash") <=> opts.parameters.lists
                       /\ argv[i + 1] = Word("/opt/cactus/wrapper.sh")
                              <=> ~opts.parameters.lists
                 /\ Cardinality(PositionsOf(argv, Word("dockstore/tool:tag"))) = 1
                 /\ IF opts.parameters.lists
                    THEN /\ Len(AfterImage(argv)) = 2
                         /\ AfterImage(argv)[1] = Word("-c")
                         /\ StartsWith(AfterImage(argv)[2], PipefailPrefix)
                    ELSE AfterImage(argv) = opts.parameters.items
            ELSE /\ entry = {}
                 /\ opts.parameters.lists =>
                       /\ Len(argv) >= 3
                       /\ LastOf(argv, 3)[1] = Word("bash")
                       /\ LastOf(argv, 3)[2] = Word("-c")
                       /\ StartsWith(LastOf(argv, 3)[3], PipefailPrefix)

\* C24 witness: a chain of two stages started in docker mode under /bin/bash,
\* its parameters being -c and the script.
C24_Witness ==
    /\ popen # NoValue
    /\ opts.mode = "docker"
    /\ opts.parameters.lists
    /\ Len(opts.parameters.items) = 2
    /\ \E i \in DOMAIN popen.call :
          /\ popen.call[i] = Word("--entrypoint")
          /\ popen.call[i + 1] = Word("/bin/bash")
    /\ LastOf(popen.call, 2)[1] = Word("-c")
    /\ LastOf(popen.call, 3)[1] = Word("dockstore/tool:tag")


----------------------------------------------------------------------------
(* maxMemUsageOfContainer *)

\* most queries of a container's memory
MaxQueries == 3

\* the ids "docker inspect -f '{{.Id}}'" can print for a name
ContainerIds == {"c0ffee", "decaf"}

\* the places where the peak memory of a container may be found (line 907)
PossibleLocations == 1..2

\* what the accounting files can hold
CgroupLayouts == [PossibleLocations -> MemSamples]

\* no accounting file can be read
Unreadable == [location \in PossibleLocations |-> None]

\* A variant of IdUnresolved: the id is looked up at every query.
IdUnresolvedAlways(info) == TRUE

\* "if containerInfo['id'] is None"
IdUnresolved(info) == info.id = None

\* "for location in possibleLocations: try: with open(location) as f:
\* return int(f.read()) except IOError: continue", then "return None"
ReadMaxUsage(files) ==
    IF files[1] # None THEN files[1]
    ELSE IF files[2] # None THEN files[2]
    ELSE None

\* dockerCommand has just returned the handle of a container that docker has
\* not started yet.
MemInit ==
    /\ containerInfo = [name |-> "uuid4", id |-> None]
    /\ dockerState = "not_running"
    /\ cgroup = Unreadable
    /\ queryRet = NoValue
    /\ inspects = 0
    /\ queries = 0

\* No container in sight.
MemIdle == MemInit

\* docker starts the container; its accounting files appear where the
\* distribution puts them, if sysfs is mounted at all.
ContainerStarts(layout) ==
    /\ dockerState = "not_running"
    /\ dockerState' = "running"
    /\ cgroup' = layout
    /\ UNCHANGED <<containerInfo, queryRet, inspects, queries>>
    /\ UNCHANGED otherThanMem

\* The container exits and, run with --rm, is removed with its files.
ContainerExits ==
    /\ dockerState = "running"
    /\ dockerState' = "gone"
    /\ cgroup' = Unreadable
    /\ UNCHANGED <<containerInfo, queryRet, inspects, queries>>
    /\ UNCHANGED otherThanMem

\* maxMemUsageOfContainer(containerInfo); docker inspect prints an id while
\* the container runs and fails otherwise.
MaxMemUsageOfContainer ==
    /\ queries < MaxQueries
    /\ queries' = queries + 1
    /\ IF IdUnresolved(containerInfo)
       THEN /\ inspects' = inspects + 1
            /\ IF dockerState = "running"
               THEN /\ \E id \in ContainerIds :
                          containerInfo' = [containerInfo EXCEPT !.id = StrValue(id)]
                    /\ queryRet' = ReadMaxUsage(cgroup)
               ELSE /\ queryRet' = None
                    /\ UNCHANGED containerInfo
       ELSE /\ queryRet' = ReadMaxUsage(cgroup)
            /\ UNCHANGED <<containerInfo, inspects>>
    /\ UNCHANGED <<dockerState, cgroup>>
    /\ UNCHANGED otherThanMem

\* C26: the handle of a container starts with id None and is resolved lazily:
\* a query with id None asks docker for the id of the name and, when that
\* fails, returns None and leaves id None, so that the next query tries
\* again; an id once set never changes and is never looked up again; a query
\* that finds every accounting file unreadable returns None.
C26_LazyContainerId ==
    /\ [](queries = 0 => (containerInfo.id = None /\ inspects = 0))
    /\ [][queries' # queries =>
             /\ containerInfo.id = None =>
                   /\ inspects' = inspects + 1
                   /\ dockerState # "running" =>
                         (queryRet' = None /\ containerInfo'.id = None)
             /\ containerInfo.id # None =>
                   (containerInfo' = containerInfo /\ inspects' = inspects)
             /\ cgroup = Unreadable => queryRet' = None]_vars
    /\ [][containerInfo.id # None => containerInfo' = containerInfo]_vars
    /\ [][containerInfo'.name = containerInfo.name]_vars

\* C26 witness: a first query failed to resolve the id, a later one resolved
\* it, and the last one, made after the container was gone, returned None
\* without asking docker again.
C26_Witness ==
    /\ queries = 3
    /\ inspects = 2
    /\ containerInfo.id # None
    /\ dockerState = "gone"
    /\ queryRet = None


----------------------------------------------------------------------------
(* Claims about the outcome of cactus_call *)

\* The call has ended.
CallEnded == callPc \in {"returned", "raised"}

\* The latest memory sample of the container is below the recorded peak.
MemoryDecreased ==
    /\ opts.mode = "docker"
    /\ updatedMemUsage \notin {None, NoValue}
    /\ updatedMemUsage.value < memUsage

\* A poll has expired later than soft_timeout seconds after the start.
PastSoftTimeout ==
    /\ opts.soft_timeout # None
    /\ elapsed > opts.soft_timeout.value

\* The outcome of a call whose child has exited, by the precedence
\* check_result, non-zero status, check_output.
ResolvedByStatus ==
    /\ returncode # NoValue
    /\ exitPath = "completed"
    /\ IF opts.check_result
       THEN callPc = "returned" /\ retval = returncode /\ error = NoError
       ELSE IF returncode.value # 0
       THEN callPc = "raised" /\ retval = NoValue /\ error # NoError
       ELSE IF opts.check_output
       THEN callPc = "returned" /\ retval.type = "str" /\ error = NoError
       ELSE callPc = "returned" /\ retval = None /\ error = NoError

\* With a soft timeout expired, None comes back, the child still running.
ResolvedBySoftTimeout ==
    /\ callPc = "returned"
    /\ exitPath = "soft_timeout"
    /\ retval = None
    /\ error = NoError
    /\ returncode = NoValue

\* With server=True the process handle comes back before any poll.
ResolvedAsServer ==
    /\ callPc = "returned"
    /\ exitPath = "server"
    /\ retval = ProcessValue
    /\ polls = 0
    /\ communicated = <<>>
    /\ returncode = NoValue

\* C28 as claimed: the outcome follows the precedence server, soft-timeout
\* expiry (None, whatever check_result and check_output say), check_result
\* (the exit code, whatever check_output says), non-zero status (raise),
\* check_output (stdout), None.
C28_Original ==
    CallEnded =>
        IF opts.server THEN ResolvedAsServer
        ELSE IF PastSoftTimeout THEN ResolvedBySoftTimeout
        ELSE ResolvedByStatus

\* C28 as amended: the same precedence with one more case between the server
\* return and the soft timeout: in docker mode a memory sample below the
\* recorded peak raises the assertion error at that poll, before the soft
\* timeout is looked at and whatever the other options say.
C28_OutcomePrecedence ==
    /\ opts.server => callPc # "polling"
    /\ CallEnded =>
          IF opts.server THEN ResolvedAsServer
          ELSE IF MemoryDecreased
          THEN callPc = "raised" /\ exitPath = "assert" /\ error = AssertionError
          ELSE IF PastSoftTimeout THEN ResolvedBySoftTimeout
          ELSE ResolvedByStatus

\* C28 witness: a soft timeout that returned None to a caller that asked for
\* check_result and check_output.
C28_Witness ==
    /\ ~opts.server
    /\ opts.check_result
    /\ opts.check_output
    /\ PastSoftTimeout
    /\ ResolvedBySoftTimeout


----------------------------------------------------------------------------
(* The polling loop of cactus_call and a child that may never exit *)

\* The child of the call exits sooner or later.
ChildIdle == childExits = TRUE

\* the return codes tried where only the fact of the exit matters
ExitCodes == {0, 1, -15}

\* A call of cactus_call with a flat command, in any mode, as a server or
\* not, with any soft timeout, with or without check_result, whose child
\* exits at some time or never does.
LiveInit ==
    /\ opts \in [mode : Modes, check_output : {FALSE}, check_result : BOOLEAN,
                 outfile : {FALSE}, server : BOOLEAN, soft_timeout : SoftTimeouts,
                 stdin_string : {None}, infile : {FALSE},
                 outappend : {FALSE}, shell : {FALSE}, swallowStdErr : {FALSE},
                 log_memory : {FALSE}, parameters : {FlatCommand}]
    /\ CallStart
    /\ childExits \in BOOLEAN

\* communicate() returns: only a child that exits lets it.
ChildExit(rc, output) ==
    /\ childExits
    /\ PollComplete(rc, output)

\* C27: with server=False cactus_call ends (returns or raises) whenever the
\* child exits at some time, and whenever a soft timeout is set, also with a
\* child that never exits; the polling loop is left only by the child's
\* completion, by the expiry of the soft timeout or by a failing memory
\* assertion, so that with no soft timeout and a child that never exits the
\* call never returns.
C27_CallEnds ==
    /\ (~opts.server /\ (childExits \/ opts.soft_timeout # None)) ~> CallEnded
    /\ []((CallEnded /\ ~opts.server) =>
             /\ exitPath \in {"completed", "soft_timeout", "assert"}
             /\ exitPath = "completed" => (childExits /\ returncode # NoValue)
             /\ exitPath = "soft_timeout" => PastSoftTimeout
             /\ exitPath = "assert" => MemoryDecreased)
    /\ []((~opts.server /\ opts.soft_timeout = None /\ ~childExits) =>
             /\ callPc # "returned"
             /\ callPc = "raised" => exitPath = "assert")

\* C27 witness: the child never exits, and the call came back at the third
\* poll, when a soft timeout of two polling intervals or more had expired.
C27_Witness ==
    /\ ~childExits
    /\ ~opts.server
    /\ opts.soft_timeout # None
    /\ opts.soft_timeout.value >= 2 * PollInterval
    /\ polls = 3
    /\ callPc = "returned"
    /\ exitPath = "soft_timeout"


----------------------------------------------------------------------------
(* Claims about the sandbox cache, continued *)

\* The callers whose build has failed.
FailedBuilders == {p \in Callers : callers[p].error = CalledProcessError}

\* C29: a directory stands at the cache name only after some caller's build
\* into its temporary directory has succeeded (the sandbox is that caller's
\* copy); a failed build raises and neither creates nor changes the target;
\* a sandbox in place is never replaced by a later rename; and a caller that
\* found the target present neither builds nor renames.
C29_CacheOnlyFromCompletedBuild ==
    /\ [](sandbox # <<>> =>
             /\ Len(sandbox) = 1
             /\ callers[sandbox[1]].builds = 1
             /\ callers[sandbox[1]].found = "absent"
             /\ callers[sandbox[1]].error = NoError
             /\ sandbox[1] \notin tempSandboxes)
    /\ [](\A p \in FailedBuilders :
             /\ callers[p].pc = "raised"
             /\ callers[p].command = NoValue
             /\ p \notin Range(sandbox))
    /\ [](\A p \in Callers : callers[p].found = "present" =>
             /\ callers[p].builds = 0
             /\ callers[p].pc = "returned"
             /\ p \notin tempSandboxes
             /\ p \notin Range(sandbox))
    /\ [][sandbox # <<>> => sandbox' = sandbox]_vars
    /\ [][FailedBuilders' # FailedBuilders => sandbox' = sandbox]_vars
    /\ [][sandbox' # sandbox =>
             \E p \in Callers : /\ callers[p].pc = "rename"
                                /\ callers[p].builds = 1
                                /\ sandbox' = <<p>>]_vars

\* C29 witness: one caller has installed its copy, a second one that had
\* built as well has finished its rename without replacing it, and the build
\* of a third has failed.
C29_Witness ==
    \E p, q, r \in Callers :
        /\ sandbox = <<p>>
        /\ q # p
        /\ callers[q].builds = 1
        /\ callers[q].error # CalledProcessError
        /\ callers[q].pc \in {"returned", "raised"}
        /\ r \in FailedBuilders


----------------------------------------------------------------------------
(* Flower names *)

\* A string of flower names is a sequence of characters.

\* largest absolute value of a small difference between flower names
MaxDelta == 1

\* a difference of several digits
LargeDelta == 128

\* most tokens after the count in a string of flower names
MaxFlowerTokens == 3

Digits == <<"0", "1", "2", "3", "4", "5", "6", "7", "8", "9">>

DigitValue(c) == (CHOOSE d \in DOMAIN Digits : Digits[d] = c) - 1

RECURSIVE NatOfStr(_)
\* int(s) for a string of digits
NatOfStr(s) ==
    IF s = <<>> THEN 0
    ELSE NatOfStr(SubSeq(s, 1, Len(s) - 1)) * 10 + DigitValue(s[Len(s)])

\* whether int(s) succeeds: an optional sign, then digits
IsNumeral(s) ==
    LET digits == IF s # <<>> /\ s[1] \in {"-", "+"} THEN Tail(s) ELSE s
    IN  /\ digits # <<>>
        /\ \A i \in DOMAIN digits : digits[i] \in Range(Digits)

\* int(s)
IntOfStr(s) ==
    IF s[1] = "-" THEN -NatOfStr(Tail(s))
    ELSE IF s[1] = "+" THEN NatOfStr(Tail(s))
    ELSE NatOfStr(s)

RECURSIVE StrOfNat(_)
StrOfNat(n) ==
    IF n < 10 THEN <<Digits[n + 1]>>
    ELSE Append(StrOfNat(n \div 10), Digits[(n % 10) + 1])

\* str(n), and "%i" % n
StrOfInt(n) == IF n < 0 THEN <<"-">> \o StrOfNat(-n) ELSE StrOfNat(n)

RECURSIVE SplitFrom(_, _, _, _)
\* str.split(): the maximal runs of characters that are not spaces;
\* words are the words read so far, cur the word being read.
SplitFrom(str, i, words, cur) ==
    IF i > Len(str)
    THEN IF cur = <<>> THEN words ELSE Append(words, cur)
    ELSE IF str[i] = " "
    THEN SplitFrom(str, i + 1, IF cur = <<>> THEN words ELSE Append(words, cur), <<>>)
    ELSE SplitFrom(str, i + 1, words, Append(cur, str[i]))

SplitWords(str) == SplitFrom(str, 1, <<>>, <<>>)

\* A variant of EncodeFlowerNames: every name is written as it is.
EncodeFlowerNamesAbsolute(names) ==
    IF Len(names) = 0 THEN <<"0">>
    ELSE StrOfInt(Len(names)) \o <<" ">> \o
         Join(<<" ">>, [i \in DOMAIN names |-> StrOfInt(names[i])])

\* encodeFlowerNames
EncodeFlowerNames(names) ==
    IF Len(names) = 0 THEN <<"0">>
    ELSE StrOfInt(Len(names)) \o <<" ">> \o
         Join(<<" ">>, [i \in DOMAIN names |->
                          IF i = 1 THEN StrOfInt(names[1])
                          ELSE StrOfInt(names[i] - names[i - 1])])

\* decodeFirstFlowerName: None, the name, or the ValueError of int()
DecodeFirstFlowerName(encodedFlowerNames) ==
    LET tokens == SplitWords(encodedFlowerNames)
    IN  IF ~IsNumeral(tokens[1]) THEN ValueError
        ELSE IF IntOfStr(tokens[1]) = 0 THEN None
        ELSE IF tokens[2] = <<"b">>
        THEN (IF IsNumeral(tokens[3]) THEN IntValue(IntOfStr(tokens[3])) ELSE ValueError)
        ELSE IF IsNumeral(tokens[2]) THEN IntValue(IntOfStr(tokens[2]))
        ELSE ValueError

\* A variant of SplitStep: the names of every group start again from 0.
SplitStepFromZero(st, i) ==
    IF i \in {<<"a">>, <<"b">>}
    THEN [groups |-> IF Len(st.stack) > 0
                     THEN Append(st.groups, [overlarge |-> st.overlarge,
                                             names |-> EncodeFlowerNames(st.stack)])
                     ELSE st.groups,
          stack |-> <<>>,
          overlarge |-> i = <<"b">>,
          name |-> 0]
    ELSE [st EXCEPT !.name = IntOfStr(i) + st.name,
                    !.stack = Append(st.stack, IntOfStr(i) + st.name)]

\* One iteration of "for i in flowerNames[1:]"; split() gives no empty
\* token. st = [groups, stack, overlarge, name].
SplitStep(st, i) ==
    IF i \in {<<"a">>, <<"b">>}
    THEN [groups |-> IF Len(st.stack) > 0
                     THEN Append(st.groups, [overlarge |-> st.overlarge,
                                             names |-> EncodeFlowerNames(st.stack)])
                     ELSE st.groups,
          stack |-> <<>>,
          overlarge |-> i = <<"b">>,
          name |-> st.name]
    ELSE [st EXCEPT !.name = IntOfStr(i) + st.name,
                    !.stack = Append(st.stack, IntOfStr(i) + st.name)]

RECURSIVE SplitLoop(_, _, _)
SplitLoop(st, tokens, k) ==
    IF k > Len(tokens) THEN st
    ELSE SplitLoop(SplitStep(st, tokens[k]), tokens, k + 1)

\* runCactusSplitFlowersBySecondaryGrouping: the list it returns
SplitFlowersBySecondaryGrouping(str) ==
    LET tokens == SplitWords(str)
        st == SplitLoop([groups |-> <<>>, stack |-> <<>>, overlarge |-> FALSE,
                         name |-> 0], tokens, 2)
    IN  IF Len(st.stack) > 0
        THEN Append(st.groups, [overlarge |-> st.overlarge,
                                names |-> EncodeFlowerNames(st.stack)])
        ELSE st.groups

\* the tokens that may follow the count
FlowerTokens ==
    {<<"a">>, <<"b">>}
        \cup {StrOfInt(n) : n \in (-MaxDelta..MaxDelta) \cup {LargeDelta}}

\* the strings of flower names: a count, then markers and differences
FlowerStrings ==
    {Join(<<" ">>, <<StrOfInt(Cardinality({i \in DOMAIN body : IsNumeral(body[i])}))>> \o body) :
        body \in UNION {[1..k -> FlowerTokens] : k \in 0..MaxFlowerTokens}}

\* runCactusSplitFlowersBySecondaryGrouping is called with some string
FlowerInit ==
    /\ flowerNames \in FlowerStrings
    /\ flowerGroups = <<>>
    /\ firstNames = <<>>
    /\ flowerPc = "called"

\* No flower names around.
FlowerIdle ==
    /\ flowerNames = <<"0">>
    /\ flowerGroups = <<>>
    /\ firstNames = <<>>
    /\ flowerPc = "called"

\* runCactusSplitFlowersBySecondaryGrouping(flowerNames) returns
SplitFlowers ==
    /\ flowerPc = "called"
    /\ flowerGroups' = SplitFlowersBySecondaryGrouping(flowerNames)
    /\ flowerPc' = "split"
    /\ UNCHANGED <<flowerNames, firstNames>>
    /\ UNCHANGED otherThanFlower

\* decodeFirstFlowerName is applied to each group that was returned
DecodeFirstNames ==
    /\ flowerPc = "split"
    /\ firstNames' = [k \in DOMAIN flowerGroups |->
                         DecodeFirstFlowerName(flowerGroups[k].names)]
    /\ flowerPc' = "decoded"
    /\ UNCHANGED <<flowerNames, flowerGroups>>
    /\ UNCHANGED otherThanFlower


----------------------------------------------------------------------------
(* Claims about flower names *)

\* The tokens of the input after the count.
FlowerBody == Tail(SplitWords(flowerNames))

\* The positions of the differences in the body.
NumeralPositions == {i \in DOMAIN FlowerBody : IsNumeral(FlowerBody[i])}

\* The name that the difference at position i of the body stands for: the
\* sum of the differences up to it.
RECURSIVE NameAt(_)
NameAt(i) ==
    IF i = 0 THEN 0
    ELSE IF i \in NumeralPositions THEN IntOfStr(FlowerBody[i]) + NameAt(i - 1)
    ELSE NameAt(i - 1)

RECURSIVE SortedSeq(_)
\* The elements of a set of numbers in increasing order.
SortedSeq(S) ==
    IF S = {} THEN <<>>
    ELSE LET lo == CHOOSE x \in S : \A y \in S : x <= y
         IN  <<lo>> \o SortedSeq(S \ {lo})

\* The running sums of the differences of the input, in order.
RunningSums == [k \in DOMAIN SortedSeq(NumeralPositions) |->
                   NameAt(SortedSeq(NumeralPositions)[k])]

\* The positions at which a run of differences starts.
RunStarts ==
    SortedSeq({i \in NumeralPositions : i = 1 \/ (i - 1) \notin NumeralPositions})

RECURSIVE Accumulate(_, _, _)
\* The names a sequence of tokens stands for: the first, then each the
\* previous plus the next difference.
Accumulate(tokens, k, last) ==
    IF k > Len(tokens) THEN <<>>
    ELSE <<last + IntOfStr(tokens[k])>>
             \o Accumulate(tokens, k + 1, last + IntOfStr(tokens[k]))

\* The names that an encoding stands for.
DecodedNames(encoded) == Accumulate(Tail(SplitWords(encoded)), 1, 0)

RECURSIVE DecodedGroups(_)
\* The names of the groups k.. of the result, in order.
DecodedGroups(k) ==
    IF k > Len(flowerGroups) THEN <<>>
    ELSE DecodedNames(flowerGroups[k].names) \o DecodedGroups(k + 1)

\* C30: runCactusSplitFlowersBySecondaryGrouping loses nothing: the names
\* decoded from the groups it returns, put one after the other, are the
\* running sums of the differences of the input; no group is empty; a group
\* is flagged overlarge exactly when the marker before it was 'b'; each
\* group is written as its count, its first name and the differences between
\* successive names, so that decodeFirstFlowerName of a group gives the
\* group's first name.
C30_SplitLosesNothing ==
    flowerPc # "called" =>
        /\ DecodedGroups(1) = RunningSums
        /\ Len(flowerGroups) = Len(RunStarts)
        /\ \A k \in DOMAIN flowerGroups :
              LET tokens == SplitWords(flowerGroups[k].names)
                  start == RunStarts[k]
                  count == Len(tokens) - 1
              IN  /\ count >= 1
                  /\ \A t \in DOMAIN tokens : IsNumeral(tokens[t])
                  /\ IntOfStr(tokens[1]) = count
                  /\ flowerGroups[k].names = Join(<<" ">>, tokens)
                  /\ flowerGroups[k].overlarge
                        <=> (start > 1 /\ FlowerBody[start - 1] = <<"b">>)
                  /\ IntOfStr(tokens[2]) = NameAt(start)
                  /\ \A j \in 1..(count - 1) :
                        /\ start + j \in NumeralPositions
                        /\ IntOfStr(tokens[2 + j]) = NameAt(start + j) - NameAt(start + j - 1)
                        /\ tokens[2 + j] = StrOfInt(IntOfStr(FlowerBody[start + j]))
                  /\ (start + count) \notin NumeralPositions
                  /\ flowerPc = "decoded" =>
                        firstNames[k] = IntValue(NameAt(start))

\* C30 witness: two groups, the second one overlarge, whose names go on
\* from the names of the first.
C30_Witness ==
    /\ flowerPc = "decoded"
    /\ Len(flowerGroups) = 2
    /\ ~flowerGroups[1].overlarge
    /\ flowerGroups[2].overlarge
    /\ DecodedNames(flowerGroups[2].names) = <<firstNames[2].value>>
    /\ firstNames[2].value # IntOfStr(FlowerBody[RunStarts[2]])
    /\ firstNames[2].value > 9


----------------------------------------------------------------------------
(* prepareWorkDir *)

\* A path is a sequence of characters.

\* most parameters of a command
MaxParameters == 2

\* The directories and the files of the machine: two sibling directories
\* whose names start alike, one more directory, and a directory and a file
\* below the current directory.
Dirs ==
    {<<"/">>, <<"/", "d">>, <<"/", "d", "/", "r", "1">>,
     <<"/", "d", "/", "r", "1", "0">>, <<"/", "e">>, <<"o">>}

Files ==
    {<<"/", "d", "/", "r", "1", "/", "x">>,
     <<"/", "d", "/", "r", "1", "0", "/", "y">>,
     <<"/", "e", "/", "z">>,
     <<"o", "/", "g">>,
     <<"f">>}

\* what a parameter may be: a file, a directory, an option, the name of a
\* file that does not exist yet
Arguments ==
    Files \cup {<<"/", "e">>, <<"o">>}
          \cup {<<"-", "-", "v">>, <<"/", "d", "/", "r", "1", "/", "n">>}

\* the work_dir arguments tried
WorkDirs == {None, StrValue(<<>>), StrValue(<<"/", "d">>), StrValue(<<".">>)}

\* os.path.isfile, os.path.isdir
IsFile(par) == par \in Files
IsDir(par) == par \in Dirs

RECURSIVE RStripSlash(_)
\* head.rstrip('/')
RStripSlash(s) ==
    IF s # <<>> /\ s[Len(s)] = "/" THEN RStripSlash(SubSeq(s, 1, Len(s) - 1)) ELSE s

\* os.path.dirname: up to the last slash, without trailing slashes unless
\* there is nothing else
Dirname(p) ==
    LET slashes == {i \in DOMAIN p : p[i] = "/"}
        i == IF slashes = {} THEN 0 ELSE CHOOSE k \in slashes : \A j \in slashes : j <= k
        head == SubSeq(p, 1, i)
    IN  IF head # <<>> /\ \E k \in DOMAIN head : head[k] # "/"
        THEN RStripSlash(head) ELSE head

\* The length of the shortest string of a non-empty set.
MinLen(S) == CHOOSE n \in {Len(s) : s \in S} : \A s \in S : n <= Len(s)

\* The deepest directory above every path of S, the "MRCA" of the comment
\* at line 1180: the common leading components ('' when there is none).
CommonPath(S) ==
    IF S = {} THEN <<>>
    ELSE LET any == CHOOSE s \in S : TRUE
             \* the lengths k at which every path ends a component, all
             \* paths agreeing up to k
             cuts == {k \in 0..MinLen(S) :
                        /\ \A s \in S : SubSeq(s, 1, k) = SubSeq(any, 1, k)
                        /\ \A s \in S : k = 0 \/ k = Len(s) \/ s[k + 1] = "/"
                                        \/ s[k] = "/"}
             k == CHOOSE c \in cuts : \A d \in cuts : d <= c
             head == SubSeq(any, 1, k)
         IN  IF \E j \in DOMAIN head : head[j] # "/" THEN RStripSlash(head) ELSE head

\* os.path.commonprefix: the longest string with which every string of the
\* list starts, character by character
CommonPrefix(S) ==
    IF S = {} THEN <<>>
    ELSE LET any == CHOOSE s \in S : TRUE
             agree == {k \in 0..MinLen(S) :
                         \A s \in S : SubSeq(s, 1, k) = SubSeq(any, 1, k)}
             k == CHOOSE c \in agree : \A d \in agree : d <= c
         IN  SubSeq(any, 1, k)

RECURSIVE ReplaceFrom(_, _, _)
\* path.replace(old, ''), old not empty: every occurrence, from the left
ReplaceFrom(path, old, i) ==
    IF i > Len(path) THEN <<>>
    ELSE IF i + Len(old) - 1 <= Len(path) /\ SubSeq(path, i, i + Len(old) - 1) = old
    THEN ReplaceFrom(path, old, i + Len(old))
    ELSE <<path[i]>> \o ReplaceFrom(path, old, i + 1)

\* adjustPath
AdjustPath(path, wd) ==
    IF wd # <<".">>
    THEN LET wds == IF wd # <<>> /\ wd[Len(wd)] = "/" THEN wd ELSE Append(wd, "/")
         IN  ReplaceFrom(path, wds, 1)
    ELSE path

\* The parent directories of the parameters that are files or directories.
ParentDirs(parameters) ==
    {Dirname(parameters[i]) : i \in {j \in DOMAIN parameters :
                                        IsFile(parameters[j]) \/ IsDir(parameters[j])}}

\* Lines 1169-1178: the work_dir after "if not work_dir: ...": None and ''
\* are both false.
InferWorkDir(work_dir, parameters) ==
    IF work_dir = None \/ work_dir.value = <<>>
    THEN LET work_dirs == ParentDirs(parameters)
         IN  IF Cardinality(work_dirs) > 1 THEN StrValue(CommonPrefix(work_dirs))
             ELSE IF Cardinality(work_dirs) = 1
             THEN StrValue(CHOOSE d \in work_dirs : TRUE)
             ELSE work_dir
    ELSE work_dir

\* prepareWorkDir: what it returns
PrepareWorkDir(work_dir, parameters, docker_mode) ==
    LET inferred == InferWorkDir(work_dir, parameters)
        wd == IF inferred = None \/ inferred.value = <<>>
              THEN <<".">> ELSE inferred.value
    IN  [work_dir |-> wd,
         parameters |-> IF docker_mode # "0"
                        THEN [i \in DOMAIN parameters |-> AdjustPath(parameters[i], wd)]
                        ELSE parameters]

\* prepareWorkDir is called: with or without a work_dir, with parameters
\* of any kind, with CACTUS_DOCKER_MODE unset or "0".
PrepareInit ==
    /\ prepareArgs \in
          [work_dir : WorkDirs,
           parameters : UNION {[1..k -> Arguments] : k \in 0..MaxParameters},
           docker_mode : {"unset", "0"}]
    /\ prepareRet = <<>>
    /\ preparePc = "called"

\* No prepareWorkDir under way.
PrepareIdle ==
    /\ prepareArgs = [work_dir |-> None, parameters |-> <<>>, docker_mode |-> "unset"]
    /\ prepareRet = <<>>
    /\ preparePc = "called"

\* prepareWorkDir returns.
PrepareReturn ==
    /\ preparePc = "called"
    /\ prepareRet' = <<PrepareWorkDir(prepareArgs.work_dir, prepareArgs.parameters,
                                      prepareArgs.docker_mode)>>
    /\ preparePc' = "returned"
    /\ UNCHANGED prepareArgs
    /\ UNCHANGED otherThanPrepare

\* Whether the work_dir argument counts as given ("if not work_dir").
WorkDirGiven == prepareArgs.work_dir # None /\ prepareArgs.work_dir.value # <<>>

\* C25: prepareWorkDir gives one work directory: a work_dir that was given
\* comes back unchanged; otherwise it is the parent directory of the file
\* and directory parameters when they have one parent, the common path
\* prefix (the deepest directory above all of them) of their parents when
\* they have several, and '.' when there is no such parameter or no common
\* part; with the work directory '.' the parameters come back unchanged.
C25_OneWorkDir ==
    preparePc = "returned" =>
        LET ret == prepareRet[1]
            parents == ParentDirs(prepareArgs.parameters)
            orDot(d) == IF d = <<>> THEN <<".">> ELSE d
        IN  /\ IF WorkDirGiven THEN ret.work_dir = prepareArgs.work_dir.value
               ELSE IF Cardinality(parents) = 1
               THEN ret.work_dir = orDot(CHOOSE d \in parents : TRUE)
               ELSE IF Cardinality(parents) > 1
               THEN ret.work_dir = orDot(CommonPath(parents))
               ELSE ret.work_dir = <<".">>
            /\ ret.work_dir = <<".">> => ret.parameters = prepareArgs.parameters


----------------------------------------------------------------------------
(* Specifications *)

\* No cactus_call under way: the part of the state the ChildTreeJob leaves alone.
CallIdle ==
    /\ opts = [mode |-> "local", check_output |-> FALSE, check_result |-> FALSE,
               outfile |-> FALSE, server |-> FALSE, soft_timeout |-> None,
               stdin_string |-> None, infile |-> FALSE, outappend |-> FALSE,
               shell |-> FALSE, swallowStdErr |-> FALSE, log_memory |-> FALSE,
               parameters |-> FlatCommand]
    /\ CallStart

\* No ChildTreeJob under way.
TreeIdle ==
    /\ maxChildrenPerJob = DefaultMaxChildrenPerJob
    /\ queuedChildJobs = <<>>
    /\ children = (Self :> <<>>)
    /\ frontier = <<>>
    /\ treePc = "queued"
    /\ addChildRet = <<>>
    /\ queuedAtRun = -1

\* No singularityCommand under way, on a file system that reports ENOTEMPTY.
SingIdle ==
    /\ SingInit
    /\ renameErrno = "ENOTEMPTY"

TreeNext ==
    \/ QueueChild
    \/ StartRun
    \/ Run

InitTree == TreeInit /\ CallIdle /\ RoundInit /\ SingIdle /\ MemIdle /\ ChildIdle /\ FlowerIdle /\ PrepareIdle

\* A ChildTreeJob: children are queued, then _run attaches them.
SpecTree == InitTree /\ [][TreeNext]_vars

CallNext ==
    \/ Popen
    \/ \E sample \in MemSamples : PollTimeout(sample)
    \/ \E rc \in ReturnCodes, output \in ChildOutputs : PollComplete(rc, output)

InitCall == CallInit /\ TreeIdle /\ RoundInit /\ SingIdle /\ MemIdle /\ ChildIdle /\ FlowerIdle /\ PrepareIdle

\* One call of cactus_call and the child process it runs.
SpecCall == InitCall /\ [][CallNext]_vars

RoundNext ==
    \/ \E memory, disk \in {None} \cup Requirements : RoundedJobInit(memory, disk)
    \/ \E querySize, targetsSize \in SequenceSizes :
           LastzRepeatMaskJobInit(querySize, targetsSize)
    \/ \E amount \in {DefaultRoundingAmount, DoctestRoundingAmount} :
           SetRoundingAmount(amount)
    \/ \E bytesRequirement \in Requirements : RoundUpCall(bytesRequirement)

InitRound == RoundInit /\ TreeIdle /\ CallIdle /\ SingIdle /\ MemIdle /\ ChildIdle /\ FlowerIdle /\ PrepareIdle

\* One RoundedJob: its construction, then calls of roundUp.
SpecRound == InitRound /\ [][RoundNext]_vars

SingNext ==
    \/ \E p \in Callers : Exists(p)
    \/ \E p \in Callers : Mkdtemp(p)
    \/ \E p \in Callers, ok \in BOOLEAN : Build(p, ok)
    \/ \E p \in Callers : Rename(p)

InitSing == SingInit /\ TreeIdle /\ CallIdle /\ RoundInit /\ MemIdle /\ ChildIdle /\ FlowerIdle /\ PrepareIdle

\* Concurrent callers of singularityCommand for one image and one cache
\* directory; each step of a caller is one access to the cache directory.
SpecSing == InitSing /\ [][SingNext]_vars

SetupNext ==
    \/ Popen
    \/ \E k \in 1..MaxStages : \E status \in StageStatuses(k) : PipelineExit(status)

InitSetup == SetupInit /\ TreeIdle /\ RoundInit /\ SingIdle /\ MemIdle /\ ChildIdle /\ FlowerIdle /\ PrepareIdle

\* One call of cactus_call that runs a command to its end: how the command
\* line and the child's streams are set up, and how a piped command exits.
SpecSetup == InitSetup /\ [][SetupNext]_vars

MemNext ==
    \/ \E layout \in CgroupLayouts : ContainerStarts(layout)
    \/ ContainerExits
    \/ MaxMemUsageOfContainer

InitMem == MemInit /\ TreeIdle /\ CallIdle /\ RoundInit /\ SingIdle /\ ChildIdle /\ FlowerIdle /\ PrepareIdle

\* A container handle and the queries of its memory.
SpecMem == InitMem /\ [][MemNext]_vars

LiveNext ==
    \/ Popen
    \/ \E sample \in MemSamples : PollTimeout(sample)
    \/ \E rc \in ExitCodes, output \in ChildOutputs : ChildExit(rc, output)

InitLive == LiveInit /\ TreeIdle /\ RoundInit /\ SingIdle /\ MemIdle /\ FlowerIdle /\ PrepareIdle

\* One call of cactus_call under the scheduling the code relies on: Popen
\* returns, every communicate(timeout=10) returns or raises within its ten
\* seconds, and a child that exits at all is seen to exit.
SpecLive ==
    /\ InitLive
    /\ [][LiveNext]_vars
    /\ WF_vars(Popen)
    /\ WF_vars(\E sample \in MemSamples : PollTimeout(sample))
    /\ WF_vars(\E rc \in ExitCodes, output \in ChildOutputs : ChildExit(rc, output))

FlowerNext ==
    \/ SplitFlowers
    \/ DecodeFirstNames

InitFlower == FlowerInit /\ TreeIdle /\ CallIdle /\ RoundInit /\ SingIdle /\ MemIdle /\ ChildIdle /\ PrepareIdle

\* One string of flower names split into groups.
SpecFlower == InitFlower /\ [][FlowerNext]_vars

PrepareNext == PrepareReturn

InitPrepare ==
    PrepareInit /\ TreeIdle /\ CallIdle /\ RoundInit /\ SingIdle /\ MemIdle /\ ChildIdle /\ FlowerIdle

\* One call of prepareWorkDir.
SpecPrepare == InitPrepare /\ [][PrepareNext]_vars

====
